---------------------------- MODULE Spec2Model ----------------------------
(***************************************************************************)
(* Telegram login verification and the stateless session token of the     *)
(* flashcard API: server/src/auth.ts (src/unnamed/part_012), the Express   *)
(* app (src/unnamed/part_011), the request schemas                         *)
(* (src/server/tests/api.test.ts:331-382) and the worker                   *)
(* (src/unnamed/part_008).                                                 *)
(*                                                                         *)
(* Representation.                                                         *)
(*  - A JavaScript string is the sequence of its character codes.          *)
(*  - A JavaScript value is a record [t, s, n, hex]: t is the typeof tag,  *)
(*    s the characters of a string, n the value of a number; a string of   *)
(*    hexadecimal digits has in hex the digest it spells, its letter case  *)
(*    and its length, and every other value has hex empty.                 *)
(*  - A JavaScript object is the sequence of its <<key, value>> entries   *)
(*    in insertion order; a property read is a lookup by key.              *)
(*  - SHA-256 and HMAC-SHA256 are ideal: a digest is the term of its       *)
(*    inputs, so two digests are equal exactly when their inputs are.      *)
(*    HMAC's own treatment of the key (RFC 2104: zero padding to the       *)
(*    block size) is modelled in HmacKey.                                  *)
(*  - A token is the sequence of its '.'-separated segments, that is the   *)
(*    result of token.split('.'); a segment is the byte string it decodes  *)
(*    to together with the variant of its spelling (0: the canonical       *)
(*    unpadded base64url spelling that the encoder produces).              *)
(***************************************************************************)
EXTENDS Integers, Sequences, FiniteSets, TLC

VARIABLES
    now,        \* Math.floor(Date.now() / 1000)
    ticks,      \* number of clock steps taken (bounds the run)
    env,        \* process.env: TELEGRAM_BOT_TOKEN and AUTH_SECRET
    minted,     \* the last issueAuthToken call and the token it returned
    verified,   \* the verifyAuthToken call being returned from, with its result
    tgCall,     \* the verifyTelegramAuthPayload call being returned from
    http,       \* the HTTP exchange being answered by the app or the worker
    logouts,    \* history: number of POST /api/auth/logout requests handled
    store       \* the card repository of the app, the database of the worker

vars == <<now, ticks, env, minted, verified, tgCall, http, logouts, store>>

----------------------------------------------------------------------------
(* Program constants                                                       *)

telegramAuthMaxAgeSeconds == 86400

tokenLifetimeSeconds == 2592000

\* `payload.auth_date > now + 60`
futureSkewSeconds == 60

\* Block size of SHA-256, in bytes: HMAC pads a shorter key to it.
HmacBlockSize == 64

\* Number of hexadecimal digits of a SHA-256 digest: /^[a-f0-9]{64}$/iu
HexDigestLength == 64

----------------------------------------------------------------------------
(* Bounds of the model                                                     *)

\* The clock value of the initial state.
Epoch == 1700000000

\* Number of clock steps in a run.
MaxTicks == 2

----------------------------------------------------------------------------
(* Strings                                                                 *)

S_id == <<105, 100>>
S_auth_date == <<97, 117, 116, 104, 95, 100, 97, 116, 101>>
S_first_name == <<102, 105, 114, 115, 116, 95, 110, 97, 109, 101>>
S_last_name == <<108, 97, 115, 116, 95, 110, 97, 109, 101>>
S_username == <<117, 115, 101, 114, 110, 97, 109, 101>>
S_photo_url == <<112, 104, 111, 116, 111, 95, 117, 114, 108>>
S_hash == <<104, 97, 115, 104>>
S_HS256 == <<72, 83, 50, 53, 54>>
S_JWT == <<74, 87, 84>>
S_none == <<110, 111, 110, 101>>
S_123 == <<49, 50, 51>>
S_456 == <<52, 53, 54>>
S_Ann == <<65, 110, 110>>
S_Bob == <<66, 111, 98>>
S_Lee == <<76, 101, 101>>
S_ann_k == <<97, 110, 110, 95, 107>>
S_photo == <<112, 46, 106, 112, 103>>
S_devSecret == <<117, 110, 105, 116, 121, 112, 114, 101, 112, 45, 100, 101, 118,
                 45, 97, 117, 116, 104, 45, 115, 101, 99, 114, 101, 116>>

\* The characters of a property name.
Chars(key) ==
    CASE key = "id" -> S_id
      [] key = "auth_date" -> S_auth_date
      [] key = "first_name" -> S_first_name
      [] key = "last_name" -> S_last_name
      [] key = "username" -> S_username
      [] key = "photo_url" -> S_photo_url
      [] key = "hash" -> S_hash

IsWhitespace(c) == c \in {9, 10, 11, 12, 13, 32}

RECURSIVE TrimStart(_)
TrimStart(s) ==
    IF s # <<>> /\ IsWhitespace(Head(s)) THEN TrimStart(Tail(s)) ELSE s

RECURSIVE TrimEnd(_)
TrimEnd(s) ==
    IF s # <<>> /\ IsWhitespace(s[Len(s)])
    THEN TrimEnd(SubSeq(s, 1, Len(s) - 1))
    ELSE s

\* String.prototype.trim
Trim(s) == TrimEnd(TrimStart(s))

IsDigit(c) == c >= 48 /\ c <= 57

\* /^\d+$/
IsNumericString(s) == s # <<>> /\ \A i \in 1..Len(s) : IsDigit(s[i])

RECURSIVE NumberToString(_)
\* String(n) of a non-negative integer
NumberToString(n) ==
    IF n < 10 THEN <<48 + n>>
    ELSE Append(NumberToString(n \div 10), 48 + (n % 10))

RECURSIVE StringToNumber(_)
\* Number(s) of a string of decimal digits
StringToNumber(s) ==
    IF s = <<>> THEN 0
    ELSE 10 * StringToNumber(SubSeq(s, 1, Len(s) - 1)) + (s[Len(s)] - 48)

RECURSIVE LocaleCompare(_, _)
\* left.localeCompare(right) on lower-case ASCII property names, which differ
\* in their first character: the order of the character codes.
LocaleCompare(left, right) ==
    IF left = <<>> /\ right = <<>> THEN 0
    ELSE IF left = <<>> THEN -1
    ELSE IF right = <<>> THEN 1
    ELSE IF Head(left) < Head(right) THEN -1
    ELSE IF Head(left) > Head(right) THEN 1
    ELSE LocaleCompare(Tail(left), Tail(right))

----------------------------------------------------------------------------
(* JavaScript values and objects                                           *)

Sha256(bytes) == [sha256 |-> bytes]

HmacSha256(key, data) == [hmacKey |-> key, hmacData |-> data]

NoHex == <<>>

Undefined == [t |-> "undefined", s |-> <<>>, n |-> 0, hex |-> NoHex]

Str(s) == [t |-> "string", s |-> s, n |-> 0, hex |-> NoHex]

Num(n) == [t |-> "number", s |-> <<>>, n |-> n, hex |-> NoHex]

\* A string of len hexadecimal digits spelling (a prefix of) digest.
HexStr(digest, upper, len) ==
    [t |-> "string", s |-> <<>>, n |-> 0,
     hex |-> <<[digest |-> digest, upper |-> upper, len |-> len]>>]

IsHexString(v) == v.hex # NoHex

typeof(v) == v.t

\* ToBoolean(v): undefined, "" and 0 are falsy.
Truthy(v) ==
    \/ v.t = "string" /\ (v.s # <<>> \/ (IsHexString(v) /\ v.hex[1].len > 0))
    \/ v.t = "number" /\ v.n # 0

HasKey(obj, key) == \E i \in 1..Len(obj) : obj[i][1] = key

\* obj[key]: the value of the last entry written under key, else undefined.
Get(obj, key) ==
    IF HasKey(obj, key)
    THEN obj[CHOOSE i \in 1..Len(obj) :
                 /\ obj[i][1] = key
                 /\ \A j \in (i + 1)..Len(obj) : obj[j][1] # key][2]
    ELSE Undefined

\* String.prototype.toLowerCase on a string of hexadecimal digits.
toLowerCase(v) ==
    IF IsHexString(v) THEN [v EXCEPT !.hex[1].upper = FALSE] ELSE v

----------------------------------------------------------------------------
(* JSON, base64url and HMAC                                                *)

NoMac == HmacSha256([hashed |-> FALSE, bytes |-> <<>>], <<>>)

\* The text JSON.stringify(obj) writes for a plain object: its members in
\* insertion order, the properties whose value is undefined left out.
IsDefinedEntry(entry) == entry[2].t # "undefined"

JSONStringify(obj) ==
    [kind |-> "object", members |-> SelectSeq(obj, IsDefinedEntry), mac |-> NoMac]

\* The text "null", and a text that is not JSON.
NullText == [kind |-> "null", members |-> <<>>, mac |-> NoMac]

JunkText == [kind |-> "junk", members |-> <<>>, mac |-> NoMac]

\* JSON.parse(text) throws a SyntaxError.
JSONParseThrows(text) == text.kind \notin {"object", "null"}

\* JSON.parse(text) for a text it accepts: the entries of the object read.
JSONParse(text) == text.members

\* Reading a property of JSON.parse(text) throws a TypeError (the value null).
PropertyReadThrows(text) == text.kind = "null"

\* base64UrlEncode(value): the canonical unpadded spelling.
base64UrlEncode(value) == [text |-> value, variant |-> 0]

\* base64UrlDecode(value): Buffer.from(..., 'base64') skips what it does not
\* know and never throws.
base64UrlDecode(segment) == segment.text

\* Worker: base64UrlDecodeBytes(value) returns null when atob throws.
base64UrlDecodeBytesFails(segment) == segment.variant = 2

RECURSIVE StripTrailingZeros(_)
StripTrailingZeros(bytes) ==
    IF bytes # <<>> /\ bytes[Len(bytes)] = 0
    THEN StripTrailingZeros(SubSeq(bytes, 1, Len(bytes) - 1))
    ELSE bytes

\* The key HMAC works with (RFC 2104): a key longer than the block is
\* replaced by its digest, a shorter one is padded with zero bytes up to
\* the block size, so that the zero bytes it ends with do not count.
HmacKey(secret) ==
    IF Len(secret) > HmacBlockSize
    THEN [hashed |-> TRUE, bytes |-> secret]
    ELSE [hashed |-> FALSE, bytes |-> StripTrailingZeros(secret)]

\* A faulty variant: the signature does not depend on the secret.
signHmac_ignoresSecret(data, secret) ==
    [kind |-> "mac", members |-> <<>>, mac |-> HmacSha256(HmacKey(<<>>), data)]

\* signHmac(data, secret): the bytes of the HMAC-SHA256 digest.
signHmac(data, secret) ==
    [kind |-> "mac", members |-> <<>>, mac |-> HmacSha256(HmacKey(secret), data)]

----------------------------------------------------------------------------
(* The session token codec                                                 *)

jwtHeader == << <<"alg", Str(S_HS256)>>, <<"typ", Str(S_JWT)>> >>

\* "No user": the null that the verifiers return.
Null == <<>>

\* A faulty variant: the payload carries no authDate.
issueAuthToken_dropsAuthDate(user, secret, clock) ==
    LET iat == clock
        exp == iat + tokenLifetimeSeconds
        payload == << <<"sub", Get(user, "id")>>,
                      <<"firstName", Get(user, "firstName")>>,
                      <<"lastName", Get(user, "lastName")>>,
                      <<"username", Get(user, "username")>>,
                      <<"photoUrl", Get(user, "photoUrl")>>,
                      <<"iat", Num(iat)>>,
                      <<"exp", Num(exp)>> >>
        encodedHeader == base64UrlEncode(JSONStringify(jwtHeader))
        encodedPayload == base64UrlEncode(JSONStringify(payload))
        data == <<encodedHeader, encodedPayload>>
        signature == base64UrlEncode(signHmac(data, secret))
    IN  <<encodedHeader, encodedPayload, signature>>

\* A faulty variant: the token expires a second late.
issueAuthToken_lateExpiry(user, secret, clock) ==
    LET iat == clock
        exp == iat + tokenLifetimeSeconds + 1
        payload == << <<"sub", Get(user, "id")>>,
                      <<"firstName", Get(user, "firstName")>>,
                      <<"lastName", Get(user, "lastName")>>,
                      <<"username", Get(user, "username")>>,
                      <<"photoUrl", Get(user, "photoUrl")>>,
                      <<"authDate", Get(user, "authDate")>>,
                      <<"iat", Num(iat)>>,
                      <<"exp", Num(exp)>> >>
        encodedHeader == base64UrlEncode(JSONStringify(jwtHeader))
        encodedPayload == base64UrlEncode(JSONStringify(payload))
        data == <<encodedHeader, encodedPayload>>
        signature == base64UrlEncode(signHmac(data, secret))
    IN  <<encodedHeader, encodedPayload, signature>>

\* issueAuthToken(user, secret), the clock read as `clock`.  The token is
\* `${encodedHeader}.${encodedPayload}.${signature}`.
issueAuthToken(user, secret, clock) ==
    LET iat == clock
        exp == iat + tokenLifetimeSeconds
        payload == << <<"sub", Get(user, "id")>>,
                      <<"firstName", Get(user, "firstName")>>,
                      <<"lastName", Get(user, "lastName")>>,
                      <<"username", Get(user, "username")>>,
                      <<"photoUrl", Get(user, "photoUrl")>>,
                      <<"authDate", Get(user, "authDate")>>,
                      <<"iat", Num(iat)>>,
                      <<"exp", Num(exp)>> >>
        encodedHeader == base64UrlEncode(JSONStringify(jwtHeader))
        encodedPayload == base64UrlEncode(JSONStringify(payload))
        data == <<encodedHeader, encodedPayload>>
        signature == base64UrlEncode(signHmac(data, secret))
    IN  <<encodedHeader, encodedPayload, signature>>

\* The user that verifyAuthToken builds from a decoded payload.
UserOfPayload(decodedPayload) ==
    << <<"id", Get(decodedPayload, "sub")>>,
       <<"firstName", Get(decodedPayload, "firstName")>>,
       <<"lastName", Get(decodedPayload, "lastName")>>,
       <<"username", Get(decodedPayload, "username")>>,
       <<"photoUrl", Get(decodedPayload, "photoUrl")>>,
       <<"authDate", IF typeof(Get(decodedPayload, "authDate")) = "number"
                     THEN Get(decodedPayload, "authDate")
                     ELSE Num(0)>> >>

\* A faulty variant: an expired token is accepted in the second of its expiry.
DecodeVerified_acceptsAtExpiry(encodedHeader, encodedPayload, clock) ==
    LET headerText == base64UrlDecode(encodedHeader)
        payloadText == base64UrlDecode(encodedPayload)
        decodedHeader == JSONParse(headerText)
        decodedPayload == JSONParse(payloadText)
    IN  IF JSONParseThrows(headerText) \/ PropertyReadThrows(headerText) THEN Null
        ELSE IF Get(decodedHeader, "alg") # Str(S_HS256)
                \/ Get(decodedHeader, "typ") # Str(S_JWT) THEN Null
        ELSE IF JSONParseThrows(payloadText) \/ PropertyReadThrows(payloadText) THEN Null
        ELSE IF typeof(Get(decodedPayload, "sub")) # "string"
                \/ typeof(Get(decodedPayload, "firstName")) # "string" THEN Null
        ELSE IF typeof(Get(decodedPayload, "exp")) # "number"
                \/ Get(decodedPayload, "exp").n < clock THEN Null
        ELSE UserOfPayload(decodedPayload)

\* The outcome of a call that ended in an exception.
Thrown == << <<"thrown", Undefined>> >>

\* A faulty variant: the exception leaves verifyAuthToken.
Catch_rethrows(outcome) == outcome

\* catch { return null; }
Catch(outcome) == IF outcome = Thrown THEN Null ELSE outcome

\* The try block of verifyAuthToken: JSON.parse throws a SyntaxError for
\* text that is not JSON, and reading alg of the value null a TypeError.
DecodeVerifiedTry(encodedHeader, encodedPayload, clock) ==
    LET headerText == base64UrlDecode(encodedHeader)
        payloadText == base64UrlDecode(encodedPayload)
        decodedHeader == JSONParse(headerText)
        decodedPayload == JSONParse(payloadText)
    IN  IF JSONParseThrows(headerText) \/ PropertyReadThrows(headerText) THEN Thrown
        ELSE IF Get(decodedHeader, "alg") # Str(S_HS256)
                \/ Get(decodedHeader, "typ") # Str(S_JWT) THEN Null
        ELSE IF JSONParseThrows(payloadText) \/ PropertyReadThrows(payloadText)
        THEN Thrown
        ELSE IF typeof(Get(decodedPayload, "sub")) # "string"
                \/ typeof(Get(decodedPayload, "firstName")) # "string" THEN Null
        ELSE IF typeof(Get(decodedPayload, "exp")) # "number"
                \/ Get(decodedPayload, "exp").n <= clock THEN Null
        ELSE UserOfPayload(decodedPayload)

\* The try statement of verifyAuthToken (part_012:119-153): what is done
\* once the signature has matched.  A throw inside it is caught and gives
\* null.
DecodeVerified(encodedHeader, encodedPayload, clock) ==
    Catch(DecodeVerifiedTry(encodedHeader, encodedPayload, clock))

\* A faulty variant: the signature is not compared.
verifyAuthToken_noSignatureCheck(token, secret, clock) ==
    LET parts == token
    IN  IF Len(parts) # 3 THEN Null
        ELSE DecodeVerified(parts[1], parts[2], clock)

\* verifyAuthToken(token, secret) of the server, the clock read as `clock`.
verifyAuthToken(token, secret, clock) ==
    LET parts == token
    IN  IF Len(parts) # 3 THEN Null
        ELSE LET encodedHeader == parts[1]
                 encodedPayload == parts[2]
                 signature == parts[3]
                 data == <<encodedHeader, encodedPayload>>
                 expectedSignature == base64UrlEncode(signHmac(data, secret))
             IN  IF signature # expectedSignature THEN Null
                 ELSE DecodeVerified(encodedHeader, encodedPayload, clock)

\* timingSafeEqualBytes(left, right) of the worker.
timingSafeEqualBytes(left, right) == left = right

\* verifyAuthToken(token, secret) of the worker: the signature segment is
\* decoded and compared as bytes.
verifyAuthTokenWorker(token, secret, clock) ==
    LET parts == token
    IN  IF Len(parts) # 3 THEN Null
        ELSE LET encodedHeader == parts[1]
                 encodedPayload == parts[2]
                 encodedSignature == parts[3]
                 data == <<encodedHeader, encodedPayload>>
                 expectedSignature == signHmac(data, secret)
             IN  IF base64UrlDecodeBytesFails(encodedSignature) THEN Null
                 ELSE IF ~timingSafeEqualBytes(base64UrlDecode(encodedSignature),
                                               expectedSignature) THEN Null
                 ELSE IF base64UrlDecodeBytesFails(encodedHeader)
                         \/ base64UrlDecodeBytesFails(encodedPayload) THEN Null
                 ELSE DecodeVerified(encodedHeader, encodedPayload, clock)

----------------------------------------------------------------------------
(* The assertion verifier                                                  *)

RECURSIVE InsertSorted(_, _)
\* One step of the (stable) sort by key.
InsertSorted(entry, sorted) ==
    IF sorted = <<>> THEN <<entry>>
    ELSE IF LocaleCompare(Chars(entry[1]), Chars(Head(sorted)[1])) < 0
         THEN <<entry>> \o sorted
         ELSE <<Head(sorted)>> \o InsertSorted(entry, Tail(sorted))

RECURSIVE SortEntries(_)
\* entries.sort(([left], [right]) => left.localeCompare(right))
SortEntries(entries) ==
    IF entries = <<>> THEN <<>>
    ELSE InsertSorted(entries[Len(entries)],
                      SortEntries(SubSeq(entries, 1, Len(entries) - 1)))

RECURSIVE Join(_, _)
\* lines.join(separator)
Join(lines, separator) ==
    IF lines = <<>> THEN <<>>
    ELSE IF Len(lines) = 1 THEN lines[1]
    ELSE lines[1] \o separator \o Join(Tail(lines), separator)

\* `${key}=${value}`
KeyValueLine(entry) == Chars(entry[1]) \o <<61>> \o entry[2]

\* The fields object of getTelegramDataCheckString before it is sorted.
DataCheckFields(payload) ==
    << <<"id", Get(payload, "id").s>>,
       <<"auth_date", NumberToString(Get(payload, "auth_date").n)>>,
       <<"first_name", Get(payload, "first_name").s>> >>
    \o (IF Truthy(Get(payload, "last_name"))
        THEN << <<"last_name", Get(payload, "last_name").s>> >> ELSE <<>>)
    \o (IF Truthy(Get(payload, "username"))
        THEN << <<"username", Get(payload, "username").s>> >> ELSE <<>>)
    \o (IF Truthy(Get(payload, "photo_url"))
        THEN << <<"photo_url", Get(payload, "photo_url").s>> >> ELSE <<>>)

\* A faulty variant: the entries are joined in insertion order, not sorted.
getTelegramDataCheckString_unsorted(payload) ==
    LET fields == DataCheckFields(payload)
    IN  Join([i \in 1..Len(fields) |-> KeyValueLine(fields[i])], <<10>>)

\* getTelegramDataCheckString(payload)
getTelegramDataCheckString(payload) ==
    LET sorted == SortEntries(DataCheckFields(payload))
    IN  Join([i \in 1..Len(sorted) |-> KeyValueLine(sorted[i])], <<10>>)

\* Buffer.from(value, 'hex'): two digits a byte, whatever their letter case.
BufferFromHex(v) ==
    IF IsHexString(v) /\ v.hex[1].len \div 2 > 0
    THEN [bytes |-> <<v.hex[1].digest>>, length |-> v.hex[1].len \div 2]
    ELSE [bytes |-> <<>>, length |-> 0]

\* crypto.timingSafeEqual(a, b) throws a RangeError for buffers of different
\* byte length.
timingSafeEqualThrows(leftBuffer, rightBuffer) ==
    leftBuffer.length # rightBuffer.length

\* A faulty variant: the buffers go to crypto.timingSafeEqual unmeasured.
safeStringCompareThrows_noLengthCheck(left, right) ==
    timingSafeEqualThrows(BufferFromHex(left), BufferFromHex(right))

\* safeStringCompare(left, right) ends in an exception.
safeStringCompareThrows(left, right) ==
    LET leftBuffer == BufferFromHex(left)
        rightBuffer == BufferFromHex(right)
    IN  IF leftBuffer.length # rightBuffer.length THEN FALSE
        ELSE timingSafeEqualThrows(leftBuffer, rightBuffer)

\* safeStringCompare(left, right)
safeStringCompare(left, right) ==
    LET leftBuffer == BufferFromHex(left)
        rightBuffer == BufferFromHex(right)
    IN  IF leftBuffer.length # rightBuffer.length THEN FALSE
        ELSE leftBuffer.bytes = rightBuffer.bytes

\* The hash verifyTelegramAuthPayload computes for a payload.
ComputedHash(payload, botToken) ==
    HexStr(HmacSha256(Sha256(botToken), getTelegramDataCheckString(payload)),
           FALSE, HexDigestLength)

\* The user verifyTelegramAuthPayload returns on success.
UserOfAssertion(payload) ==
    << <<"id", Get(payload, "id")>>,
       <<"firstName", Get(payload, "first_name")>>,
       <<"lastName", Get(payload, "last_name")>>,
       <<"username", Get(payload, "username")>>,
       <<"photoUrl", Get(payload, "photo_url")>>,
       <<"authDate", Get(payload, "auth_date")>> >>

\* A faulty variant: the staleness test is off by one second.
verifyTelegramAuthPayload_staleOffByOne(payload, botToken, clock) ==
    IF \/ Get(payload, "auth_date").n > clock + futureSkewSeconds
       \/ clock - Get(payload, "auth_date").n >= telegramAuthMaxAgeSeconds
    THEN Null
    ELSE IF ~safeStringCompare(ComputedHash(payload, botToken),
                               toLowerCase(Get(payload, "hash")))
    THEN Null
    ELSE UserOfAssertion(payload)

\* A faulty variant: first and last name are swapped in the user.
verifyTelegramAuthPayload_swapsNames(payload, botToken, clock) ==
    IF \/ Get(payload, "auth_date").n > clock + futureSkewSeconds
       \/ clock - Get(payload, "auth_date").n > telegramAuthMaxAgeSeconds
    THEN Null
    ELSE IF ~safeStringCompare(ComputedHash(payload, botToken),
                               toLowerCase(Get(payload, "hash")))
    THEN Null
    ELSE << <<"id", Get(payload, "id")>>,
            <<"firstName", Get(payload, "last_name")>>,
            <<"lastName", Get(payload, "first_name")>>,
            <<"username", Get(payload, "username")>>,
            <<"photoUrl", Get(payload, "photo_url")>>,
            <<"authDate", Get(payload, "auth_date")>> >>

\* A faulty variant: the hash is not compared.
verifyTelegramAuthPayload_noHashCheck(payload, botToken, clock) ==
    IF \/ Get(payload, "auth_date").n > clock + futureSkewSeconds
       \/ clock - Get(payload, "auth_date").n > telegramAuthMaxAgeSeconds
    THEN Null
    ELSE UserOfAssertion(payload)

\* verifyTelegramAuthPayload(payload, botToken), the clock read as `clock`.
verifyTelegramAuthPayload(payload, botToken, clock) ==
    IF \/ Get(payload, "auth_date").n > clock + futureSkewSeconds
       \/ clock - Get(payload, "auth_date").n > telegramAuthMaxAgeSeconds
    THEN Null
    ELSE IF safeStringCompareThrows(ComputedHash(payload, botToken),
                                    toLowerCase(Get(payload, "hash")))
    THEN Thrown
    ELSE IF ~safeStringCompare(ComputedHash(payload, botToken),
                               toLowerCase(Get(payload, "hash")))
    THEN Null
    ELSE UserOfAssertion(payload)

----------------------------------------------------------------------------
(* Inputs of the token codec                                               *)

\* Authenticated users: one without the optional properties, one with all
\* of them, one with an optional property undefined and another missing.
UserMinimal ==
    << <<"id", Str(S_123)>>, <<"firstName", Str(S_Ann)>>,
       <<"authDate", Num(Epoch - 7)>> >>

UserFull ==
    << <<"id", Str(S_456)>>, <<"firstName", Str(S_Bob)>>,
       <<"lastName", Str(S_Lee)>>, <<"username", Str(S_ann_k)>>,
       <<"photoUrl", Str(S_photo)>>, <<"authDate", Num(Epoch)>> >>

UserSparse ==
    << <<"id", Str(S_123)>>, <<"firstName", Str(S_Ann)>>,
       <<"lastName", Undefined>>, <<"username", Str(S_ann_k)>>,
       <<"authDate", Num(Epoch - 7)>> >>

Users == {UserMinimal, UserFull, UserSparse}

\* Signing secrets, as a process can be configured with: strings without
\* NUL characters.
Secrets == {<<97>>, <<97, 98>>, S_devSecret}

UserKeys == {"id", "firstName", "lastName", "username", "photoUrl", "authDate"}

\* Two users are equal field by field.
UserEq(left, right) == \A key \in UserKeys : Get(left, key) = Get(right, key)

\* A token built like issueAuthToken builds it, from any header and payload.
SignedToken(header, payload, secret) ==
    LET encodedHeader == base64UrlEncode(JSONStringify(header))
        encodedPayload == base64UrlEncode(JSONStringify(payload))
    IN  <<encodedHeader, encodedPayload,
          base64UrlEncode(signHmac(<<encodedHeader, encodedPayload>>, secret))>>

\* The payload object of a token for `user` that expires at `exp`.
PayloadOf(user, iat, exp) ==
    << <<"sub", Get(user, "id")>>,
       <<"firstName", Get(user, "firstName")>>,
       <<"lastName", Get(user, "lastName")>>,
       <<"username", Get(user, "username")>>,
       <<"photoUrl", Get(user, "photoUrl")>>,
       <<"authDate", Get(user, "authDate")>>,
       <<"iat", Num(iat)>>,
       <<"exp", Num(exp)>> >>

\* The decoded payload of a token, and its exp and iat.
DecodedPayload(token) == JSONParse(base64UrlDecode(token[2]))

ExpOf(token) == Get(DecodedPayload(token), "exp").n

IatOf(token) == Get(DecodedPayload(token), "iat").n

\* What an attacker who holds a token can put in place of its payload
\* segment: the payload of another user, the same payload with a later
\* expiry, the same bytes spelled differently, and text that is not JSON.
ReplacementSegments(m) ==
    { base64UrlEncode(JSONStringify(PayloadOf(UserFull, m.iat, ExpOf(m.token)))),
      base64UrlEncode(JSONStringify(PayloadOf(UserMinimal, m.iat, ExpOf(m.token)))),
      base64UrlEncode(JSONStringify(
          PayloadOf(m.user, m.iat, ExpOf(m.token) + tokenLifetimeSeconds))),
      [text |-> base64UrlDecode(m.token[2]), variant |-> 1],
      base64UrlEncode(JunkText),
      base64UrlEncode(NullText) } \ {m.token[2]}

\* The signature segment matches the HMAC of 'header.payload' under secret.
SignatureMatches(token, secret) ==
    /\ Len(token) = 3
    /\ base64UrlDecode(token[3]) = signHmac(<<token[1], token[2]>>, secret)

Implementations == {"server", "worker"}

VerifyWith(impl, token, secret, clock) ==
    IF impl = "server" THEN verifyAuthToken(token, secret, clock)
    ELSE verifyAuthTokenWorker(token, secret, clock)

----------------------------------------------------------------------------
(* State                                                                   *)

NoToken == <<>>

IdleMinted == [user |-> Null, secret |-> <<>>, iat |-> 0, token |-> NoToken]

IdleVerified ==
    [impl |-> "server", source |-> "none", token |-> NoToken,
     secret |-> <<>>, at |-> 0, result |-> Null]

NoAssertion == <<>>

IdleTgCall ==
    [payload |-> NoAssertion, botToken |-> <<>>, at |-> 0,
     dataCheckString |-> <<>>, result |-> Null]

NoHeader == [present |-> FALSE, scheme |-> <<>>, token |-> NoToken]

IdleHttp ==
    [route |-> "none", status |-> 0, body |-> NoAssertion, header |-> NoHeader,
     token |-> NoToken, user |-> Null, next |-> FALSE, at |-> 0,
     error |-> ""]

\* A repository without cards; nextId numbers the cards it creates.
EmptyStore == [cards |-> <<>>, nextId |-> 1]

DefaultEnv == [TELEGRAM_BOT_TOKEN |-> <<>>, AUTH_SECRET |-> <<>>]

\* The clock moves forward: by a second, or by a second less than the
\* lifetime of a token.
ClockSteps == {1, tokenLifetimeSeconds - 1}

\* No call is being returned from and no request is being answered.
Quiet == verified = IdleVerified /\ tgCall = IdleTgCall /\ http = IdleHttp

Tick ==
    /\ Quiet
    /\ ticks < MaxTicks
    /\ \E step \in ClockSteps : now' = now + step
    /\ ticks' = ticks + 1
    /\ UNCHANGED <<env, minted, verified, tgCall, http, logouts, store>>

----------------------------------------------------------------------------
(* The token codec called directly                                         *)

IssueAuthToken ==
    /\ Quiet
    /\ \E user \in Users, secret \in Secrets :
          minted' = [user |-> user, secret |-> secret, iat |-> now,
                     token |-> issueAuthToken(user, secret, now)]
    /\ UNCHANGED <<now, ticks, env, verified, tgCall, http, logouts, store>>

\* verifyAuthToken on a token as it was minted, under any secret.
VerifyMinted ==
    /\ Quiet
    /\ minted # IdleMinted
    /\ \E secret \in Secrets, impl \in Implementations :
          verified' = [impl |-> impl, source |-> "minted", token |-> minted.token,
                       secret |-> secret, at |-> now,
                       result |-> VerifyWith(impl, minted.token, secret, now)]
    /\ UNCHANGED <<now, ticks, env, minted, tgCall, http, logouts, store>>

\* verifyAuthToken on a minted token whose payload segment was replaced.
VerifyTampered ==
    /\ Quiet
    /\ minted # IdleMinted
    /\ \E impl \in Implementations, segment \in ReplacementSegments(minted) :
          LET token == <<minted.token[1], segment, minted.token[3]>>
          IN  verified' = [impl |-> impl, source |-> "tampered", token |-> token,
                           secret |-> minted.secret, at |-> now,
                           result |-> VerifyWith(impl, token, minted.secret, now)]
    /\ UNCHANGED <<now, ticks, env, minted, tgCall, http, logouts, store>>

\* Headers and expiry claims of tokens signed with the right secret by
\* something other than issueAuthToken.
ForgedShapes(clock) ==
    { <<jwtHeader, Num(clock - 1)>>,
      <<jwtHeader, Num(clock)>>,
      <<jwtHeader, Num(clock + 1)>>,
      <<jwtHeader, Undefined>>,
      << << <<"alg", Str(S_none)>>, <<"typ", Str(S_JWT)>> >>, Num(clock + 1)>>,
      << << <<"alg", Str(S_HS256)>> >>, Num(clock + 1)>> }

\* The object with the value under key replaced.
WithValue(obj, key, value) ==
    [i \in 1..Len(obj) |-> IF obj[i][1] = key THEN <<key, value>> ELSE obj[i]]

\* The object without key.
RECURSIVE Without(_, _)
Without(obj, key) ==
    IF obj = <<>> THEN <<>>
    ELSE IF Head(obj)[1] = key THEN Without(Tail(obj), key)
    ELSE <<Head(obj)>> \o Without(Tail(obj), key)

\* What a forged payload leaves out or changes: nothing, a claim dropped,
\* sub a number, authDate a string.
ForgedClaims(payload) ==
    { payload,
      Without(payload, "sub"),
      Without(payload, "firstName"),
      Without(payload, "authDate"),
      WithValue(payload, "sub", Num(StringToNumber(Get(payload, "sub").s))),
      WithValue(payload, "authDate",
                Str(NumberToString(Get(payload, "authDate").n))) }

\* verifyAuthToken on a correctly signed token with any header, claims and
\* expiry.
VerifyForged ==
    /\ Quiet
    /\ \E user \in {UserMinimal}, secret \in Secrets, impl \in Implementations :
          \E shape \in ForgedShapes(now) :
            \E payload \in ForgedClaims(<< <<"sub", Get(user, "id")>>,
                                          <<"firstName", Get(user, "firstName")>>,
                                          <<"authDate", Get(user, "authDate")>>,
                                          <<"exp", shape[2]>> >>) :
              LET token == SignedToken(shape[1], payload, secret)
              IN  verified' = [impl |-> impl, source |-> "forged", token |-> token,
                               secret |-> secret, at |-> now,
                               result |-> VerifyWith(impl, token, secret, now)]
    /\ UNCHANGED <<now, ticks, env, minted, tgCall, http, logouts, store>>

\* verifyAuthToken on a minted token cut short, extended, or with its
\* signature segment spelled differently.
VerifyReshaped ==
    /\ Quiet
    /\ minted # IdleMinted
    /\ \E impl \in Implementations :
          \E token \in { <<minted.token[1], minted.token[2]>>,
                         minted.token \o <<minted.token[3]>>,
                         <<minted.token[1], minted.token[2],
                           [text |-> base64UrlDecode(minted.token[3]), variant |-> 1]>>,
                         <<minted.token[1], minted.token[2],
                           [text |-> base64UrlDecode(minted.token[3]), variant |-> 2]>> } :
              verified' = [impl |-> impl, source |-> "reshaped", token |-> token,
                           secret |-> minted.secret, at |-> now,
                           result |-> VerifyWith(impl, token, minted.secret, now)]
    /\ UNCHANGED <<now, ticks, env, minted, tgCall, http, logouts, store>>

\* Tokens with the signature their first two segments call for, where a
\* segment decodes to text that is not JSON (the empty segment among them),
\* to the text null, or holds characters outside the base64 alphabet; the
\* empty string, which splits into one empty segment; and two dots.
MalformedTokens(secret, clock) ==
    LET goodHeader == base64UrlEncode(JSONStringify(jwtHeader))
        goodPayload == base64UrlEncode(JSONStringify(
                           PayloadOf(UserMinimal, clock, clock + 1)))
        junk == base64UrlEncode(JunkText)
        null == base64UrlEncode(NullText)
        foreign(segment) == [segment EXCEPT !.variant = 2]
        sign(header, payload) ==
            <<header, payload, base64UrlEncode(signHmac(<<header, payload>>, secret))>>
    IN  { sign(junk, goodPayload), sign(null, goodPayload),
          sign(goodHeader, junk), sign(goodHeader, null),
          sign(foreign(goodHeader), goodPayload),
          sign(goodHeader, foreign(goodPayload)),
          sign(junk, junk),
          <<junk>>, <<junk, junk, junk>> }

\* verifyAuthToken on a token whose segments do not decode to JSON objects.
VerifyMalformed ==
    /\ Quiet
    /\ \E secret \in Secrets, impl \in Implementations :
          \E token \in MalformedTokens(secret, now) :
              verified' = [impl |-> impl, source |-> "malformed", token |-> token,
                           secret |-> secret, at |-> now,
                           result |-> VerifyWith(impl, token, secret, now)]
    /\ UNCHANGED <<now, ticks, env, minted, tgCall, http, logouts, store>>

\* The caller takes the result of verifyAuthToken.
ReturnVerified ==
    /\ verified # IdleVerified
    /\ verified' = IdleVerified
    /\ UNCHANGED <<now, ticks, env, minted, tgCall, http, logouts, store>>

InitCodec ==
    /\ now = Epoch
    /\ ticks = 0
    /\ env = DefaultEnv
    /\ minted = IdleMinted
    /\ verified = IdleVerified
    /\ tgCall = IdleTgCall
    /\ http = IdleHttp
    /\ logouts = 0
    /\ store = EmptyStore

NextCodec ==
    \/ Tick
    \/ IssueAuthToken
    \/ VerifyMinted
    \/ VerifyTampered
    \/ VerifyForged
    \/ VerifyReshaped
    \/ VerifyMalformed
    \/ ReturnVerified

SpecCodec == InitCodec /\ [][NextCodec]_vars

----------------------------------------------------------------------------
(* Claims about the token codec (under SpecCodec)                          *)

\* The last verifyAuthToken call was made on the last minted token with the
\* secret it was minted with.
VerifiedTheMinted ==
    /\ minted # IdleMinted
    /\ verified.token = minted.token
    /\ verified.secret = minted.secret

\* C1: round trip.  verifyAuthToken(issueAuthToken(u, s), s) at any clock
\* value before the token's exp returns a user equal to u field by field.
C1_RoundTrip ==
    (VerifiedTheMinted /\ verified.at < ExpOf(minted.token))
        => (verified.result # Null /\ UserEq(verified.result, minted.user))

\* C1 witness: the token of a user with an undefined and a missing optional
\* property was verified in the last second of its life.
C1_Witness ==
    /\ VerifiedTheMinted
    /\ minted.user = UserSparse
    /\ verified.at = minted.iat + tokenLifetimeSeconds - 1
    /\ verified.result # Null

\* C2: tamper detection.  A minted token whose payload segment was replaced
\* by a different one is rejected, and no user is returned unless the
\* signature segment is the HMAC of 'header.payload' under the secret.
C2_TamperDetection ==
    /\ verified.source = "tampered" => verified.result = Null
    /\ verified.result # Null => SignatureMatches(verified.token, verified.secret)

\* C2 witness: the replaced payload would have given a user, had the
\* signature not been compared.
C2_Witness ==
    /\ verified.source = "tampered"
    /\ verified.token[2] # minted.token[2]
    /\ DecodeVerified(verified.token[1], verified.token[2], verified.at) # Null
    /\ verified.result = Null

\* C3: a token minted with one secret is rejected under any other secret.
C3_WrongSecret ==
    (minted # IdleMinted /\ verified.token = minted.token
        /\ verified.secret # minted.secret)
        => verified.result = Null

\* C3 witness: an unexpired minted token was verified under another secret.
C3_Witness ==
    /\ minted # IdleMinted
    /\ verified.token = minted.token
    /\ verified.secret # minted.secret
    /\ verified.at < ExpOf(minted.token)
    /\ verified.result = Null

\* The token is spelled as issueAuthToken spells it and signed with secret.
CorrectlySigned(token, secret) ==
    /\ Len(token) = 3
    /\ token[3] = base64UrlEncode(signHmac(<<token[1], token[2]>>, secret))

\* Header {alg: HS256, typ: JWT}, string sub and firstName, numeric exp,
\* both segments spelled in the base64url alphabet.
WellFormed(token) ==
    /\ Len(token) = 3
    /\ ~base64UrlDecodeBytesFails(token[1])
    /\ ~base64UrlDecodeBytesFails(token[2])
    /\ base64UrlDecode(token[1]) = JSONStringify(jwtHeader)
    /\ base64UrlDecode(token[2]).kind = "object"
    /\ typeof(Get(DecodedPayload(token), "sub")) = "string"
    /\ typeof(Get(DecodedPayload(token), "firstName")) = "string"
    /\ typeof(Get(DecodedPayload(token), "exp")) = "number"

\* C4: expiry boundary.  A correctly signed, well-formed token is accepted
\* at clock value `at` exactly when exp > at.
C4_ExpiryBoundary ==
    (CorrectlySigned(verified.token, verified.secret) /\ WellFormed(verified.token))
        => (verified.result # Null <=> ExpOf(verified.token) > verified.at)

\* C4 witness: a token with exp = now was rejected.
C4_Witness ==
    /\ CorrectlySigned(verified.token, verified.secret)
    /\ WellFormed(verified.token)
    /\ ExpOf(verified.token) = verified.at
    /\ verified.result = Null

\* What holds of the minted token in every state.
C5_Lifetime ==
    minted # IdleMinted =>
        /\ IatOf(minted.token) = minted.iat
        /\ ExpOf(minted.token) = minted.iat + 2592000
        /\ VerifiedTheMinted =>
              (verified.result # Null <=> verified.at < minted.iat + 2592000)

\* Once the minted token is rejected it stays rejected.
C5_StaysRejected ==
    (/\ now' # now
     /\ minted # IdleMinted
     /\ minted' = minted
     /\ \E impl \in Implementations :
           VerifyWith(impl, minted.token, minted.secret, now) = Null)
        => \A impl \in Implementations :
              VerifyWith(impl, minted.token, minted.secret, now') = Null

\* C5: token lifetime.  A token minted at t carries iat = t and
\* exp = t + 2592000, verifies at every t' < t + 2592000, is rejected at
\* every t' >= t + 2592000, and once rejected is never accepted again.
C5_TokenLifetime == []C5_Lifetime /\ [][C5_StaysRejected]_vars

\* C5 witness: the minted token was rejected in the second of its expiry.
C5_Witness ==
    /\ VerifiedTheMinted
    /\ verified.at = minted.iat + 2592000
    /\ verified.result = Null

----------------------------------------------------------------------------
(* The assertion verifier called directly                                  *)

\* Application credentials (bot tokens).
BotTokens == {<<98, 111, 116>>, <<98, 111, 116, 50>>}

\* auth_date relative to the clock: around the staleness limit, fresh, and
\* around the tolerated clock skew.
AuthDateOffsets ==
    { -(telegramAuthMaxAgeSeconds + 1), -telegramAuthMaxAgeSeconds,
      -(telegramAuthMaxAgeSeconds - 1), 0,
      futureSkewSeconds - 1, futureSkewSeconds, futureSkewSeconds + 1 }

\* The fields of a validated assertion other than the hash, in the order
\* of the schema; an optional field that is absent has no entry, or an
\* entry that is undefined, as the schema leaves it for an empty string.
AssertionFields(clock) ==
    { << <<"id", Str(S_123)>>, <<"first_name", Str(S_Ann)>> >>
         \o lastName \o username \o photoUrl
         \o << <<"auth_date", Num(clock + offset)>> >> :
        lastName \in { <<>>, << <<"last_name", Str(S_Lee)>> >>,
                       << <<"last_name", Undefined>> >> },
        username \in { <<>>, << <<"username", Str(S_ann_k)>> >> },
        photoUrl \in { <<>>, << <<"photo_url", Str(S_photo)>> >> },
        offset \in AuthDateOffsets }

\* The hashes a request can carry for the fields it sends: the one Telegram
\* computes with the bot token, in lower and in upper case; the one of the
\* same fields a second later; the one computed with another bot token; and
\* the right one cut short.
HashesFor(fields, botToken) ==
    LET right == HmacSha256(Sha256(botToken), getTelegramDataCheckString(fields))
        later == HmacSha256(Sha256(botToken),
                     getTelegramDataCheckString(
                         fields \o << <<"auth_date",
                                        Num(Get(fields, "auth_date").n + 1)>> >>))
        other == HmacSha256(Sha256(botToken \o <<33>>),
                     getTelegramDataCheckString(fields))
    IN  { HexStr(right, FALSE, HexDigestLength),
          HexStr(right, TRUE, HexDigestLength),
          HexStr(later, FALSE, HexDigestLength),
          HexStr(other, FALSE, HexDigestLength),
          HexStr(right, FALSE, HexDigestLength - 2) }

\* The orders in which the properties of an object can be written: as
\* given, reversed, and rotated by one.
Reverse(seq) == [i \in 1..Len(seq) |-> seq[Len(seq) + 1 - i]]

Rotate(seq) == IF seq = <<>> THEN seq ELSE Tail(seq) \o <<Head(seq)>>

Orderings(obj) == {obj, Reverse(obj), Rotate(obj)}

\* The typed payloads (TelegramAuthPayload) the verifier is called with.
Assertions(clock, botToken) ==
    UNION { UNION { Orderings(fields \o << <<"hash", hash>> >>) :
                      hash \in HashesFor(fields, botToken) } :
              fields \in AssertionFields(clock) }

VerifyTelegramAuthPayload ==
    /\ Quiet
    /\ \E botToken \in BotTokens :
          \E payload \in Assertions(now, botToken) :
              tgCall' = [payload |-> payload, botToken |-> botToken, at |-> now,
                         dataCheckString |-> getTelegramDataCheckString(payload),
                         result |-> verifyTelegramAuthPayload(payload, botToken, now)]
    /\ UNCHANGED <<now, ticks, env, minted, verified, http, logouts, store>>

\* The caller takes the result of verifyTelegramAuthPayload.
ReturnTgCall ==
    /\ tgCall # IdleTgCall
    /\ tgCall' = IdleTgCall
    /\ UNCHANGED <<now, ticks, env, minted, verified, http, logouts, store>>

InitVerifier ==
    /\ now = Epoch
    /\ ticks = 0
    /\ env = DefaultEnv
    /\ minted = IdleMinted
    /\ verified = IdleVerified
    /\ tgCall = IdleTgCall
    /\ http = IdleHttp
    /\ logouts = 0
    /\ store = EmptyStore

NextVerifier ==
    \/ Tick
    \/ VerifyTelegramAuthPayload
    \/ ReturnTgCall

SpecVerifier == InitVerifier /\ [][NextVerifier]_vars

----------------------------------------------------------------------------
(* Claims about the assertion verifier (under SpecVerifier)                *)

\* The payload has a value under key (a property that is undefined counts
\* as absent, as it does in JSON).
Present(payload, key) == Get(payload, key) # Undefined

\* The presented hash spells the HMAC-SHA256, keyed with the SHA-256 of the
\* bot token, of the data-check string assembled line by line in key order.
ExpectedDataCheckString(payload) ==
    S_auth_date \o <<61>> \o NumberToString(Get(payload, "auth_date").n)
    \o <<10>> \o S_first_name \o <<61>> \o Get(payload, "first_name").s
    \o <<10>> \o S_id \o <<61>> \o Get(payload, "id").s
    \o (IF Present(payload, "last_name")
        THEN <<10>> \o S_last_name \o <<61>> \o Get(payload, "last_name").s
        ELSE <<>>)
    \o (IF Present(payload, "photo_url")
        THEN <<10>> \o S_photo_url \o <<61>> \o Get(payload, "photo_url").s
        ELSE <<>>)
    \o (IF Present(payload, "username")
        THEN <<10>> \o S_username \o <<61>> \o Get(payload, "username").s
        ELSE <<>>)

HashIsCorrect(payload, botToken) ==
    /\ IsHexString(Get(payload, "hash"))
    /\ Get(payload, "hash").hex[1].len = 64
    /\ Get(payload, "hash").hex[1].digest =
          HmacSha256(Sha256(botToken), ExpectedDataCheckString(payload))

InWindow(payload, clock) ==
    /\ clock - 86400 <= Get(payload, "auth_date").n
    /\ Get(payload, "auth_date").n <= clock + 60

\* C7: timestamp window.  An assertion with the correct hash is accepted at
\* clock value now exactly when now - 86400 <= auth_date <= now + 60.
C7_TimestampWindow ==
    (tgCall # IdleTgCall /\ HashIsCorrect(tgCall.payload, tgCall.botToken))
        => (tgCall.result # Null <=> InWindow(tgCall.payload, tgCall.at))

\* C7 witness: a correctly signed assertion exactly 24 hours old was accepted.
C7_Witness ==
    /\ tgCall # IdleTgCall
    /\ HashIsCorrect(tgCall.payload, tgCall.botToken)
    /\ Get(tgCall.payload, "auth_date").n = tgCall.at - 86400
    /\ tgCall.result # Null

\* C8: canonicalization.  The data-check string is the 'key=value' lines of
\* id, auth_date, first_name and the optional fields that are present, in
\* ascending order of the keys, joined by single newlines, whatever the
\* order of the properties in the payload, and without the hash.
C8_Canonicalization ==
    tgCall # IdleTgCall
        => tgCall.dataCheckString = ExpectedDataCheckString(tgCall.payload)

\* C8 witness: a payload with every optional field, its properties written
\* in reverse order with the hash first.
C8_Witness ==
    /\ tgCall # IdleTgCall
    /\ tgCall.payload[1][1] = "hash"
    /\ Len(tgCall.payload) = 7
    /\ tgCall.dataCheckString = ExpectedDataCheckString(tgCall.payload)

\* C9: a successful verification returns the projection of the assertion.
C9_Projection ==
    (/\ tgCall # IdleTgCall
     /\ HashIsCorrect(tgCall.payload, tgCall.botToken)
     /\ InWindow(tgCall.payload, tgCall.at))
        => /\ tgCall.result # Null
           /\ {tgCall.result[i][1] : i \in 1..Len(tgCall.result)} = UserKeys
           /\ Get(tgCall.result, "id") = Get(tgCall.payload, "id")
           /\ Get(tgCall.result, "firstName") = Get(tgCall.payload, "first_name")
           /\ Get(tgCall.result, "lastName") = Get(tgCall.payload, "last_name")
           /\ Get(tgCall.result, "username") = Get(tgCall.payload, "username")
           /\ Get(tgCall.result, "photoUrl") = Get(tgCall.payload, "photo_url")
           /\ Get(tgCall.result, "authDate") = Get(tgCall.payload, "auth_date")

\* C9 witness: an accepted assertion with a last name and no username.
C9_Witness ==
    /\ tgCall # IdleTgCall
    /\ tgCall.result # Null
    /\ HasKey(tgCall.payload, "last_name")
    /\ ~HasKey(tgCall.payload, "username")
    /\ Get(tgCall.result, "lastName") = Str(S_Lee)
    /\ Get(tgCall.result, "username") = Undefined

----------------------------------------------------------------------------
(* The Express application: validation, bearer parsing, auth routes        *)

\* Requests to POST /api/auth/logout the model follows.
MaxLogouts == 2

\* z.string().trim().min(1).max(255)
ParseNonEmpty(v) ==
    IF v.t = "string" /\ ~IsHexString(v) /\ Len(Trim(v.s)) >= 1
       /\ Len(Trim(v.s)) <= 255
    THEN <<Str(Trim(v.s))>>
    ELSE <<>>

\* optionalTrimmedString: a missing value stays missing, a string is trimmed
\* and an empty one becomes undefined.
ParseOptionalTrimmedString(v) ==
    IF v.t = "undefined" THEN <<Undefined>>
    ELSE IF v.t = "string" /\ ~IsHexString(v) /\ Len(Trim(v.s)) <= 255
    THEN <<IF Trim(v.s) # <<>> THEN Str(Trim(v.s)) ELSE Undefined>>
    ELSE <<>>

\* id: a positive integer turned into a string, or a string of digits.
ParseId(v) ==
    IF v.t = "number" /\ v.n > 0 THEN <<Str(NumberToString(v.n))>>
    ELSE IF v.t = "string" /\ ~IsHexString(v) /\ IsNumericString(Trim(v.s))
    THEN <<Str(Trim(v.s))>>
    ELSE <<>>

\* auth_date: a positive integer, or a string of digits turned into a number.
ParseAuthDate(v) ==
    IF v.t = "number" /\ v.n > 0 THEN <<v>>
    ELSE IF v.t = "string" /\ ~IsHexString(v) /\ IsNumericString(Trim(v.s))
    THEN <<Num(StringToNumber(Trim(v.s)))>>
    ELSE <<>>

\* hash: /^[a-f0-9]{64}$/iu
ParseHash(v) ==
    IF v.t = "string" /\ IsHexString(v) /\ v.hex[1].len = HexDigestLength
    THEN <<v>>
    ELSE <<>>

\* The entry of a parsed object for a key of the input.
ParsedEntry(body, key, parsed) ==
    IF HasKey(body, key) /\ parsed # <<>> THEN << <<key, parsed[1]>> >> ELSE <<>>

\* telegramAuthSchema.parse(body): ok is FALSE where parse throws a ZodError.
telegramAuthSchema(body) ==
    LET id == ParseId(Get(body, "id"))
        firstName == ParseNonEmpty(Get(body, "first_name"))
        lastName == ParseOptionalTrimmedString(Get(body, "last_name"))
        username == ParseOptionalTrimmedString(Get(body, "username"))
        photoUrl == ParseOptionalTrimmedString(Get(body, "photo_url"))
        authDate == ParseAuthDate(Get(body, "auth_date"))
        hash == ParseHash(Get(body, "hash"))
    IN  IF <<>> \in {id, firstName, lastName, username, photoUrl, authDate, hash}
        THEN [ok |-> FALSE, data |-> body]
        ELSE [ok |-> TRUE,
              data |-> ParsedEntry(body, "id", id)
                       \o ParsedEntry(body, "first_name", firstName)
                       \o ParsedEntry(body, "last_name", lastName)
                       \o ParsedEntry(body, "username", username)
                       \o ParsedEntry(body, "photo_url", photoUrl)
                       \o ParsedEntry(body, "auth_date", authDate)
                       \o ParsedEntry(body, "hash", hash)]

\* String.prototype.toLowerCase on a string of characters.
LowerChars(s) ==
    [i \in 1..Len(s) |-> IF s[i] >= 65 /\ s[i] <= 90 THEN s[i] + 32 ELSE s[i]]

S_Bearer == <<66, 101, 97, 114, 101, 114>>

S_bearer == <<98, 101, 97, 114, 101, 114>>

S_Basic == <<66, 97, 115, 105, 99>>

\* parseBearerToken(headerValue): the header is held as the two pieces its
\* split(' ') gives, the second one as the segments of a token, which hold
\* no white space for trim() to remove.  NoToken stands for null.
parseBearerToken(header) ==
    IF ~header.present THEN NoToken
    ELSE IF header.scheme = <<>> \/ header.token = NoToken
            \/ LowerChars(header.scheme) # S_bearer
    THEN NoToken
    ELSE header.token

\* A faulty variant: the bot token is preferred to AUTH_SECRET, untrimmed.
resolveAuthSecret_botTokenFirst(environment) ==
    IF environment.TELEGRAM_BOT_TOKEN # <<>> THEN environment.TELEGRAM_BOT_TOKEN
    ELSE IF environment.AUTH_SECRET # <<>> THEN environment.AUTH_SECRET
    ELSE S_devSecret

\* resolveAuthSecret()
resolveAuthSecret(environment) ==
    IF Trim(environment.AUTH_SECRET) # <<>> THEN Trim(environment.AUTH_SECRET)
    ELSE IF Trim(environment.TELEGRAM_BOT_TOKEN) # <<>>
    THEN Trim(environment.TELEGRAM_BOT_TOKEN)
    ELSE S_devSecret

\* The environments the process can be started with: the bot token unset,
\* set, or set with surrounding blanks; the signing secret unset or set.
Environments ==
    { [TELEGRAM_BOT_TOKEN |-> botToken, AUTH_SECRET |-> secret] :
        botToken \in { <<>>, <<98, 111, 116>>, <<32, 98, 111, 116, 32>> },
        secret \in { <<>>, <<97>>, <<32>>, <<32, 97, 32>> } }

\* The bot token Telegram signs assertions with.
TelegramBotToken(environment) ==
    IF Trim(environment.TELEGRAM_BOT_TOKEN) # <<>>
    THEN Trim(environment.TELEGRAM_BOT_TOKEN)
    ELSE <<98, 111, 116>>

\* The hash Telegram attaches to the fields of an assertion.
TelegramHash(fields, botToken) ==
    HexStr(HmacSha256(Sha256(botToken), getTelegramDataCheckString(fields)),
           FALSE, HexDigestLength)

\* Request bodies of POST /api/auth/telegram: an assertion signed by
\* Telegram; the same with id a number and auth_date a string; with an empty
\* last_name; signed by another bot; with the hash cut short; without
\* first_name; one that is a day and a second old; one dated 61 seconds
\* ahead; with first_name a number; without id; and the old one with the
\* hash cut short.
LoginBodies(clock, botToken) ==
    LET fresh == << <<"id", Str(S_123)>>, <<"first_name", Str(S_Ann)>>,
                    <<"username", Str(S_ann_k)>>,
                    <<"auth_date", Num(clock - 7)>> >>
        stale == WithValue(fresh, "auth_date",
                           Num(clock - telegramAuthMaxAgeSeconds - 1))
        ahead == WithValue(fresh, "auth_date",
                           Num(clock + futureSkewSeconds + 1))
        signed == fresh \o << <<"hash", TelegramHash(fresh, botToken)>> >>
        cut(fields) ==
            fields \o << <<"hash", HexStr(TelegramHash(fields, botToken).hex[1].digest,
                                          FALSE, HexDigestLength - 2)>> >>
    IN  { signed,
          ahead \o << <<"hash", TelegramHash(ahead, botToken)>> >>,
          WithValue(signed, "first_name", Num(7)),
          Without(signed, "id"),
          cut(stale),
          WithValue(WithValue(signed, "id", Num(StringToNumber(S_123))),
                    "auth_date", Str(NumberToString(clock - 7))),
          << <<"last_name", Str(<<>>)>> >> \o signed,
          fresh \o << <<"hash", TelegramHash(fresh, botToken \o <<33>>)>> >>,
          fresh \o << <<"hash", HexStr(TelegramHash(fresh, botToken).hex[1].digest,
                                       FALSE, HexDigestLength - 2)>> >>,
          Without(signed, "first_name"),
          stale \o << <<"hash", TelegramHash(stale, botToken)>> >> }

\* The response of a handler, with what the handler worked on.
HttpExchange(route, status, body, header, token, user, next, clock) ==
    [route |-> route, status |-> status, body |-> body, header |-> header,
     token |-> token, user |-> user, next |-> next, at |-> clock,
     error |-> ""]

\* res.status(...).json({ error: message }): the exchange with the error of
\* the response body.
Failed(exchange, message) == [exchange EXCEPT !.error = message]

\* A faulty variant: a server without TELEGRAM_BOT_TOKEN verifies against a
\* built-in token.
configuredBotToken_orDefault(environment) == TelegramBotToken(environment)

\* process.env.TELEGRAM_BOT_TOKEN?.trim(); <<>> where it is undefined or empty.
configuredBotToken(environment) == Trim(environment.TELEGRAM_BOT_TOKEN)

\* A faulty variant: the schema lets every body through.
telegramAuthSchema_acceptsAll(body) == [ok |-> TRUE, data |-> body]

\* telegramAuthSchema.parse(req.body) of the login handler.
parseLoginBody(body) == telegramAuthSchema(body)

\* POST /api/auth/telegram
PostAuthTelegram ==
    /\ Quiet
    /\ \E body \in LoginBodies(now, TelegramBotToken(env)) :
          LET botToken == configuredBotToken(env)
              parsed == parseLoginBody(body)
              user == verifyTelegramAuthPayload(parsed.data, botToken, now)
              token == issueAuthToken(user, resolveAuthSecret(env), now)
          IN  IF botToken = <<>>
              THEN /\ http' = Failed(HttpExchange("login", 503, body, NoHeader,
                                                  NoToken, Null, FALSE, now),
                                     "Telegram auth is not configured on server")
                   /\ UNCHANGED <<minted, tgCall>>
              ELSE IF ~parsed.ok
              THEN /\ http' = Failed(HttpExchange("login", 400, body, NoHeader,
                                                  NoToken, Null, FALSE, now),
                                     "Validation error")
                   /\ UNCHANGED <<minted, tgCall>>
              ELSE /\ tgCall' = [payload |-> parsed.data, botToken |-> botToken,
                                 at |-> now,
                                 dataCheckString |->
                                     getTelegramDataCheckString(parsed.data),
                                 result |-> user]
                   /\ IF user = Null
                      THEN /\ http' = Failed(HttpExchange("login", 401,
                                                          parsed.data, NoHeader,
                                                          NoToken, Null, FALSE,
                                                          now),
                                             "Invalid Telegram auth payload")
                           /\ UNCHANGED minted
                      ELSE /\ http' = HttpExchange("login", 200, parsed.data,
                                                   NoHeader, token, user,
                                                   FALSE, now)
                           /\ minted' = [user |-> user,
                                         secret |-> resolveAuthSecret(env),
                                         iat |-> now, token |-> token]
    /\ UNCHANGED <<now, ticks, env, verified, logouts, store>>

\* Authorization headers of requests: none; the token of the last login
\* under the schemes Bearer, bearer and Basic; no token after the scheme;
\* the token with the expiry in its payload pushed back; the token cut to
\* two segments; and tokens made without the login endpoint, signed with
\* another secret, or with the secret of the server but expired, with
\* another alg, without typ, without firstName, or without exp.
AuthorizationHeaders(clock) ==
    LET forgedPayload(exp) ==
            << <<"sub", Str(S_456)>>, <<"firstName", Str(S_Bob)>>,
               <<"authDate", Num(clock)>>, <<"exp", Num(exp)>> >>
        bearer(token) == [present |-> TRUE, scheme |-> S_Bearer, token |-> token]
    IN  { NoHeader,
          bearer(NoToken),
          bearer(SignedToken(jwtHeader, forgedPayload(clock + 1),
                             resolveAuthSecret(env) \o <<33>>)),
          bearer(SignedToken(jwtHeader, forgedPayload(clock),
                             resolveAuthSecret(env))),
          bearer(SignedToken(<< <<"alg", Str(S_none)>>, <<"typ", Str(S_JWT)>> >>,
                             forgedPayload(clock + 1), resolveAuthSecret(env))),
          bearer(SignedToken(<< <<"alg", Str(S_HS256)>> >>,
                             forgedPayload(clock + 1), resolveAuthSecret(env))),
          bearer(SignedToken(jwtHeader,
                             Without(forgedPayload(clock + 1), "firstName"),
                             resolveAuthSecret(env))),
          bearer(SignedToken(jwtHeader, Without(forgedPayload(clock + 1), "exp"),
                             resolveAuthSecret(env))) }
        \cup
        (IF minted = IdleMinted THEN {}
         ELSE { bearer(minted.token),
                [present |-> TRUE, scheme |-> S_bearer, token |-> minted.token],
                [present |-> TRUE, scheme |-> S_Basic, token |-> minted.token],
                bearer(<<minted.token[1],
                         base64UrlEncode(JSONStringify(
                             PayloadOf(minted.user, minted.iat,
                                       ExpOf(minted.token) + tokenLifetimeSeconds))),
                         minted.token[3]>>),
                bearer(<<minted.token[1], minted.token[2]>>) })

\* The verifyAuthToken call of a handler.
VerifyCall(source, token, clock) ==
    [impl |-> "server", source |-> source, token |-> token,
     secret |-> resolveAuthSecret(env), at |-> clock,
     result |-> verifyAuthToken(token, resolveAuthSecret(env), clock)]

\* GET /api/auth/me
GetAuthMe ==
    /\ Quiet
    /\ \E header \in AuthorizationHeaders(now) :
          LET token == parseBearerToken(header)
              user == verifyAuthToken(token, resolveAuthSecret(env), now)
          IN  IF token = NoToken
              THEN /\ http' = Failed(HttpExchange("me", 401, NoAssertion,
                                                  header, NoToken, Null, FALSE,
                                                  now),
                                     "Unauthorized")
                   /\ UNCHANGED verified
              ELSE /\ verified' = VerifyCall("me", token, now)
                   /\ http' = IF user = Null
                              THEN Failed(HttpExchange("me", 401, NoAssertion,
                                                       header, NoToken, Null,
                                                       FALSE, now),
                                          "Unauthorized")
                              ELSE HttpExchange("me", 200, NoAssertion, header,
                                                NoToken, user, FALSE, now)
    /\ UNCHANGED <<now, ticks, env, minted, tgCall, logouts, store>>

\* A faulty variant: logout replaces the signing secret of the server.
PostAuthLogout_rotatesSecret ==
    /\ Quiet
    /\ logouts < MaxLogouts
    /\ \E header \in AuthorizationHeaders(now) :
          http' = HttpExchange("logout", 204, NoAssertion, header, NoToken,
                               Null, FALSE, now)
    /\ logouts' = logouts + 1
    /\ env' = [env EXCEPT !.AUTH_SECRET = resolveAuthSecret(env) \o <<33>>]
    /\ UNCHANGED <<now, ticks, minted, verified, tgCall, store>>

\* POST /api/auth/logout: answers 204 to any request; logouts counts them.
PostAuthLogout ==
    /\ Quiet
    /\ logouts < MaxLogouts
    /\ \E header \in AuthorizationHeaders(now) :
          http' = HttpExchange("logout", 204, NoAssertion, header, NoToken,
                               Null, FALSE, now)
    /\ logouts' = logouts + 1
    /\ UNCHANGED <<now, ticks, env, minted, verified, tgCall, store>>

\* requireAuth, the middleware in front of the routes that change cards:
\* `next` is TRUE where it calls next(), `user` is res.locals.authUser.
RequireAuth ==
    /\ Quiet
    /\ \E header \in AuthorizationHeaders(now) :
          LET botTokenConfigured == Trim(env.TELEGRAM_BOT_TOKEN) # <<>>
              token == parseBearerToken(header)
              user == verifyAuthToken(token, resolveAuthSecret(env), now)
          IN  IF ~botTokenConfigured
              THEN /\ http' = HttpExchange("requireAuth", 0, NoAssertion, header,
                                           NoToken, Null, TRUE, now)
                   /\ UNCHANGED verified
              ELSE IF token = NoToken
              THEN /\ http' = Failed(HttpExchange("requireAuth", 401,
                                                  NoAssertion, header, NoToken,
                                                  Null, FALSE, now),
                                     "Unauthorized")
                   /\ UNCHANGED verified
              ELSE /\ verified' = VerifyCall("requireAuth", token, now)
                   /\ http' = IF user = Null
                              THEN Failed(HttpExchange("requireAuth", 401,
                                                       NoAssertion, header,
                                                       NoToken, Null, FALSE, now),
                                          "Unauthorized")
                              ELSE HttpExchange("requireAuth", 0, NoAssertion,
                                                header, NoToken, user, TRUE, now)
    /\ UNCHANGED <<now, ticks, env, minted, tgCall, logouts, store>>

\* The response is sent; the records of the calls the handler made go.
Respond ==
    /\ http # IdleHttp
    /\ http' = IdleHttp
    /\ verified' = IdleVerified
    /\ tgCall' = IdleTgCall
    /\ UNCHANGED <<now, ticks, env, minted, logouts, store>>

Init ==
    /\ now = Epoch
    /\ ticks = 0
    /\ env \in Environments
    /\ minted = IdleMinted
    /\ verified = IdleVerified
    /\ tgCall = IdleTgCall
    /\ http = IdleHttp
    /\ logouts = 0
    /\ store = EmptyStore

Next ==
    \/ Tick
    \/ PostAuthTelegram
    \/ GetAuthMe
    \/ PostAuthLogout
    \/ RequireAuth
    \/ Respond

Spec == Init /\ [][Next]_vars

----------------------------------------------------------------------------
(* Claims about the application (under Spec)                               *)

\* After a logout, the token of the last login is accepted until its exp.
C6_StillAccepted ==
    (logouts > 0 /\ minted # IdleMinted)
        => /\ now < ExpOf(minted.token)
              => verifyAuthToken(minted.token, resolveAuthSecret(env), now) # Null
           /\ (/\ http.route \in {"me", "requireAuth"}
               /\ parseBearerToken(http.header) = minted.token
               /\ http.at < ExpOf(minted.token))
                 => (http.user # Null /\ UserEq(http.user, minted.user))

\* A logout leaves the environment, the clock and the issued token alone.
C6_LogoutChangesNothing ==
    logouts' # logouts => (env' = env /\ now' = now /\ minted' = minted)

\* C6: no revocation.  After any number of logout requests a token issued
\* earlier that has not reached its exp is still accepted, and the logout
\* operation changes no state of the server.
C6_NoRevocation == []C6_StillAccepted /\ [][C6_LogoutChangesNothing]_vars

\* C6 witness: after two logouts and a move of the clock, GET /api/auth/me
\* with the token of an earlier login answered 200.
C6_Witness ==
    /\ logouts = MaxLogouts
    /\ minted # IdleMinted
    /\ http.route = "me"
    /\ parseBearerToken(http.header) = minted.token
    /\ http.at > minted.iat
    /\ http.status = 200

\* C10: a user exists only after a signature matched.  The login endpoint
\* answers with a token and a user only for an assertion whose hash is the
\* HMAC of its data-check string; verifyTelegramAuthPayload and
\* verifyAuthToken return a user only for such an assertion or for a token
\* whose signature is the HMAC of 'header.payload'; and a request gets an
\* identity only from such a token.
C10_VerifiedBeforeConstructed ==
    /\ (http.route = "login"
           /\ (http.status = 200 \/ http.token # NoToken \/ http.user # Null))
          => HashIsCorrect(http.body, Trim(env.TELEGRAM_BOT_TOKEN))
    /\ tgCall.result # Null => HashIsCorrect(tgCall.payload, tgCall.botToken)
    /\ verified.result # Null
          => SignatureMatches(verified.token, verified.secret)
    /\ (http.route \in {"me", "requireAuth"} /\ http.user # Null)
          => SignatureMatches(parseBearerToken(http.header),
                              resolveAuthSecret(env))
    /\ minted # IdleMinted
          => SignatureMatches(minted.token, resolveAuthSecret(env))

\* C10 witness: a fresh assertion signed by another bot was answered 401
\* and no token was issued.
C10_Witness ==
    /\ http.route = "login"
    /\ http.status = 401
    /\ InWindow(http.body, http.at)
    /\ ~HashIsCorrect(http.body, Trim(env.TELEGRAM_BOT_TOKEN))
    /\ http.token = NoToken
    /\ tgCall.result = Null

----------------------------------------------------------------------------
(* The Express application: the routes that change cards                   *)

\* Ids the repository hands out: creating stops at this one.
MaxCards == 2

ownerUsername == <<115, 116, 97, 110, 105, 115, 108, 97, 118, 110, 117, 114>>

S_StanislavNur == <<83, 116, 97, 110, 105, 115, 108, 97, 118, 78, 117, 114>>

S_unity == <<117, 110, 105, 116, 121>>

S_csharp == <<99, 35>>

S_UNITY == <<32, 85, 78, 73, 84, 89>>

S_net == <<110, 101, 116>>

S_Question == <<81, 63>>

S_Answer == <<65, 33>>

\* An array value of a request body.
Arr(items) == [t |-> "array", items |-> items]

\* nonEmpty: z.string().trim().min(1)
nonEmpty(v) ==
    IF v.t = "string" /\ ~IsHexString(v) /\ Len(Trim(v.s)) >= 1
    THEN <<Trim(v.s)>>
    ELSE <<>>

RECURSIVE Dedup(_)
\* Array.from(new Set(items)): the first occurrence of each item is kept.
Dedup(items) ==
    IF items = <<>> THEN <<>>
    ELSE LET front == Dedup(SubSeq(items, 1, Len(items) - 1))
             last == items[Len(items)]
         IN  IF \E i \in 1..Len(front) : front[i] = last
             THEN front ELSE Append(front, last)

\* normalizedStringArray: at most 30 non-empty strings, trimmed, duplicates
\* removed.
normalizedStringArray(v) ==
    IF v.t = "array" /\ Len(v.items) <= 30
       /\ \A i \in 1..Len(v.items) : nonEmpty(v.items[i]) # <<>>
    THEN <<Dedup([i \in 1..Len(v.items) |-> nonEmpty(v.items[i])[1]])>>
    ELSE <<>>

\* createCardSchema.parse(body) on question, answer and tags (sources is
\* treated like tags and difficulty has a default; neither is read by the
\* routes).
createCardSchema(body) ==
    LET question == nonEmpty(body.question)
        answer == nonEmpty(body.answer)
        tags == IF body.tags.t = "undefined" THEN << <<>> >>
                ELSE normalizedStringArray(body.tags)
    IN  IF <<>> \in {question, answer, tags}
        THEN [ok |-> FALSE, data |-> body]
        ELSE [ok |-> TRUE,
              data |-> [question |-> Str(question[1]), answer |-> Str(answer[1]),
                        tags |-> Arr(tags[1])]]

\* updateCardSchema.parse(body): every field optional, at least one given.
updateCardSchema(body) ==
    LET question == IF body.question.t = "undefined" THEN <<Undefined>>
                    ELSE IF nonEmpty(body.question) = <<>> THEN <<>>
                    ELSE <<Str(nonEmpty(body.question)[1])>>
        answer == IF body.answer.t = "undefined" THEN <<Undefined>>
                  ELSE IF nonEmpty(body.answer) = <<>> THEN <<>>
                  ELSE <<Str(nonEmpty(body.answer)[1])>>
        tags == IF body.tags.t = "undefined" THEN <<Undefined>>
                ELSE IF normalizedStringArray(body.tags) = <<>> THEN <<>>
                ELSE <<Arr(normalizedStringArray(body.tags)[1])>>
    IN  IF <<>> \in {question, answer, tags}
           \/ (question = <<Undefined>> /\ answer = <<Undefined>>
               /\ tags = <<Undefined>>)
        THEN [ok |-> FALSE, data |-> body]
        ELSE [ok |-> TRUE,
              data |-> [question |-> question[1], answer |-> answer[1],
                        tags |-> tags[1]]]

\* reactCardSchema.parse(body): value is -1 or 1.
reactCardSchema(body) ==
    IF body.value.t = "number" /\ body.value.n \in {-1, 1}
    THEN [ok |-> TRUE, data |-> body]
    ELSE [ok |-> FALSE, data |-> body]

\* The index of the card with this id in the repository, 0 if there is none.
FindIndex(st, id) ==
    IF \E i \in 1..Len(st.cards) : st.cards[i].id = id
    THEN CHOOSE i \in 1..Len(st.cards) :
             /\ st.cards[i].id = id
             /\ \A j \in 1..(i - 1) : st.cards[j].id # id
    ELSE 0

\* repository.create(input)
RepositoryCreate(st, input) ==
    [cards |-> << [id |-> st.nextId, question |-> input.question.s,
                   answer |-> input.answer.s, tags |-> input.tags.items,
                   likesCount |-> 0, dislikesCount |-> 0, score |-> 0,
                   userReaction |-> 0] >> \o st.cards,
     nextId |-> st.nextId + 1]

\* repository.update(id, input) where the card exists
RepositoryUpdate(st, id, input) ==
    LET index == FindIndex(st, id)
        current == st.cards[index]
        updated == [current EXCEPT
                       !.question = IF input.question.t = "undefined"
                                    THEN @ ELSE input.question.s,
                       !.answer = IF input.answer.t = "undefined"
                                  THEN @ ELSE input.answer.s,
                       !.tags = IF input.tags.t = "undefined"
                                THEN @ ELSE input.tags.items]
    IN  [st EXCEPT !.cards[index] = updated]

\* repository.remove(id)
RepositoryRemove(st, id) ==
    LET keep(card) == card.id # id
    IN  [st EXCEPT !.cards = SelectSeq(st.cards, keep)]

Max0(n) == IF n < 0 THEN 0 ELSE n

\* A faulty variant: the same reaction sent again is counted again.
RepositoryReact_noToggle(st, id, value) ==
    LET index == FindIndex(st, id)
        current == st.cards[index]
        likesCount == Max0(current.likesCount) + (IF value = 1 THEN 1 ELSE 0)
        dislikesCount == Max0(current.dislikesCount) + (IF value = 1 THEN 0 ELSE 1)
    IN  [st EXCEPT !.cards[index] =
            [current EXCEPT !.likesCount = likesCount,
                            !.dislikesCount = dislikesCount,
                            !.score = likesCount - dislikesCount,
                            !.userReaction = value]]

\* A faulty variant: a reaction is added without taking back the previous
\* one.
RepositoryReact_keepsPrevious(st, id, value) ==
    LET index == FindIndex(st, id)
        current == st.cards[index]
        previous == current.userReaction
        likes == Max0(current.likesCount)
        dislikes == Max0(current.dislikesCount)
        likesCount ==
            IF previous = value
            THEN (IF value = 1 THEN Max0(likes - 1) ELSE likes)
            ELSE likes + (IF value = 1 THEN 1 ELSE 0)
        dislikesCount ==
            IF previous = value
            THEN (IF value = 1 THEN dislikes ELSE Max0(dislikes - 1))
            ELSE dislikes + (IF value = 1 THEN 0 ELSE 1)
    IN  [st EXCEPT !.cards[index] =
            [current EXCEPT !.likesCount = likesCount,
                            !.dislikesCount = dislikesCount,
                            !.score = likesCount - dislikesCount,
                            !.userReaction = IF previous = value THEN 0 ELSE value]]

\* repository.react(id, value) where the card exists
RepositoryReact(st, id, value) ==
    LET index == FindIndex(st, id)
        current == st.cards[index]
        previous == current.userReaction
        likes == Max0(current.likesCount)
        dislikes == Max0(current.dislikesCount)
        likesCount ==
            IF previous = value
            THEN (IF value = 1 THEN Max0(likes - 1) ELSE likes)
            ELSE (IF previous = 1 THEN Max0(likes - 1) ELSE likes)
                 + (IF value = 1 THEN 1 ELSE 0)
        dislikesCount ==
            IF previous = value
            THEN (IF value = 1 THEN dislikes ELSE Max0(dislikes - 1))
            ELSE (IF previous = -1 THEN Max0(dislikes - 1) ELSE dislikes)
                 + (IF value = 1 THEN 0 ELSE 1)
        userReaction == IF previous = value THEN 0 ELSE value
    IN  [st EXCEPT !.cards[index] =
            [current EXCEPT !.likesCount = likesCount,
                            !.dislikesCount = dislikesCount,
                            !.score = likesCount - dislikesCount,
                            !.userReaction = userReaction]]

\* normalizeTag(tag)
normalizeTag(tag) == LowerChars(Trim(tag))

\* A faulty variant: the tags are compared as written.
hasRemovedTags_exact(previousTags, nextTags) ==
    \E i \in 1..Len(previousTags) :
        previousTags[i] \notin {nextTags[j] : j \in 1..Len(nextTags)}

\* hasRemovedTags(previousTags, nextTags)
hasRemovedTags(previousTags, nextTags) ==
    LET nextSet == {normalizeTag(nextTags[i]) : i \in 1..Len(nextTags)}
    IN  \E i \in 1..Len(previousTags) : normalizeTag(previousTags[i]) \notin nextSet

\* A faulty variant: every resolved user counts as the owner.
isOwnerUser_anyUser(user) == user # Null

\* isOwnerUser(user): user is Null where res.locals.authUser is undefined.
isOwnerUser(user) ==
    LET username == IF user = Null \/ Get(user, "username").t = "undefined"
                    THEN <<>> ELSE Get(user, "username").s
    IN  LowerChars(Trim(username)) = ownerUsername

\* A faulty variant: a request without a token is let through.
requireAuth_allowsMissingToken(header, environment, clock) ==
    LET token == parseBearerToken(header)
        user == verifyAuthToken(token, resolveAuthSecret(environment), clock)
    IN  IF Trim(environment.TELEGRAM_BOT_TOKEN) = <<>> \/ token = NoToken
        THEN [status |-> 0, next |-> TRUE, user |-> Null]
        ELSE IF user = Null THEN [status |-> 401, next |-> FALSE, user |-> Null]
        ELSE [status |-> 0, next |-> TRUE, user |-> user]

\* requireAuth(req, res, next): the status it answers with (0: none), whether
\* it calls next(), and res.locals.authUser.
requireAuth(header, environment, clock) ==
    LET botTokenConfigured == Trim(environment.TELEGRAM_BOT_TOKEN) # <<>>
        token == parseBearerToken(header)
        user == verifyAuthToken(token, resolveAuthSecret(environment), clock)
    IN  IF ~botTokenConfigured
        THEN [status |-> 0, next |-> TRUE, user |-> Null]
        ELSE IF token = NoToken
        THEN [status |-> 401, next |-> FALSE, user |-> Null]
        ELSE IF user = Null
        THEN [status |-> 401, next |-> FALSE, user |-> Null]
        ELSE [status |-> 0, next |-> TRUE, user |-> user]

\* A card carrying an author next to the properties the repository keeps.
WithAuthor(card, author) ==
    [id |-> card.id, question |-> card.question, answer |-> card.answer,
     tags |-> card.tags, likesCount |-> card.likesCount,
     dislikesCount |-> card.dislikesCount, score |-> card.score,
     userReaction |-> card.userReaction, author |-> author]

\* repository.create(input) of a repository that keeps the author of the
\* input on the card it creates. FileCardRepository.create as listed
\* (RepositoryCreate) builds the card without it; the card the route
\* answers with carries it.
CreateWithAuthor(st, input) ==
    LET created == RepositoryCreate(st, input)
    IN  [created EXCEPT !.cards[1] = WithAuthor(@, input.author.s)]

\* A faulty variant: the id is tried before the names.
resolveCardAuthor_idFirst(user) ==
    IF user = Null \/ typeof(Get(user, "id")) # "string"
       \/ Trim(Get(user, "id").s) = <<>>
    THEN ownerUsername
    ELSE Trim(Get(user, "id").s)

\* resolveCardAuthor(user): the first of username, the given names joined
\* by a space, and id that is a string with something left after trimming,
\* trimmed; 'stanislavnur' without a user or without such a string.
resolveCardAuthor(user) ==
    LET names == SelectSeq(<<Get(user, "firstName"), Get(user, "lastName")>>,
                           Truthy)
        fullName == Str(Join([i \in 1..Len(names) |-> names[i].s], <<32>>))
        candidates == <<Get(user, "username"), fullName, Get(user, "id")>>
        usable(candidate) ==
            typeof(candidate) = "string" /\ Len(Trim(candidate.s)) > 0
        found == SelectSeq(candidates, usable)
    IN  IF user = Null THEN ownerUsername
        ELSE IF found # <<>> THEN Trim(found[1].s)
        ELSE ownerUsername

\* The handlers behind requireAuth: the status they answer with and the
\* repository they leave, for res.locals.authUser = user.
CreateCardHandler(user, req, st) ==
    LET parsed == createCardSchema(req.body)
        author == resolveCardAuthor(user)
        input == [question |-> parsed.data.question,
                  answer |-> parsed.data.answer, tags |-> parsed.data.tags,
                  author |-> Str(author)]
    IN  IF ~parsed.ok THEN [status |-> 400, store |-> st]
        ELSE [status |-> 201, store |-> CreateWithAuthor(st, input)]

UpdateCardHandler(user, req, st) ==
    LET parsed == updateCardSchema(req.body)
        index == FindIndex(st, req.id)
    IN  IF ~parsed.ok THEN [status |-> 400, store |-> st]
        ELSE IF index = 0 THEN [status |-> 404, store |-> st]
        ELSE IF /\ parsed.data.tags.t # "undefined"
                /\ hasRemovedTags(st.cards[index].tags, parsed.data.tags.items)
                /\ ~isOwnerUser(user)
        THEN [status |-> 403, store |-> st]
        ELSE [status |-> 200, store |-> RepositoryUpdate(st, req.id, parsed.data)]

DeleteCardHandler(user, req, st) ==
    IF ~isOwnerUser(user) THEN [status |-> 403, store |-> st]
    ELSE IF FindIndex(st, req.id) = 0 THEN [status |-> 404, store |-> st]
    ELSE [status |-> 204, store |-> RepositoryRemove(st, req.id)]

ReactCardHandler(user, req, st) ==
    LET parsed == reactCardSchema(req.body)
    IN  IF ~parsed.ok THEN [status |-> 400, store |-> st]
        ELSE IF FindIndex(st, req.id) = 0 THEN [status |-> 404, store |-> st]
        ELSE [status |-> 200,
              store |-> RepositoryReact(st, req.id, parsed.data.value.n)]

CardWriteRoutes == {"createCard", "updateCard", "deleteCard", "reactCard"}

CardHandler(route, user, req, st) ==
    CASE route = "createCard" -> CreateCardHandler(user, req, st)
      [] route = "updateCard" -> UpdateCardHandler(user, req, st)
      [] route = "deleteCard" -> DeleteCardHandler(user, req, st)
      [] route = "reactCard" -> ReactCardHandler(user, req, st)

\* A gated route: requireAuth, then the handler.
GatedRoute(route, header, req, st, environment, clock) ==
    LET auth == requireAuth(header, environment, clock)
    IN  IF ~auth.next THEN [status |-> auth.status, store |-> st, user |-> Null]
        ELSE [status |-> CardHandler(route, auth.user, req, st).status,
              store |-> CardHandler(route, auth.user, req, st).store,
              user |-> auth.user]

\* The users that hold tokens: the owner, with the username as Telegram
\* spells it, and someone else.
OwnerUser ==
    << <<"id", Str(S_456)>>, <<"firstName", Str(S_Bob)>>,
       <<"username", Str(S_StanislavNur)>>, <<"authDate", Num(Epoch)>> >>

\* Authorization headers of requests to the gated routes: none; Basic; no
\* token after Bearer; tokens the login endpoint issued to the owner and to
\* someone else, and to a user without username; a token of the owner that
\* has expired; one signed with another secret; and one cut to two segments.
CardRequestHeaders(environment, clock) ==
    LET secret == resolveAuthSecret(environment)
        owner == issueAuthToken(OwnerUser, secret, clock)
        bearer(token) == [present |-> TRUE, scheme |-> S_Bearer, token |-> token]
    IN  { NoHeader,
          [present |-> TRUE, scheme |-> S_Basic, token |-> owner],
          bearer(NoToken),
          bearer(owner),
          bearer(issueAuthToken(UserSparse, secret, clock)),
          bearer(issueAuthToken(UserMinimal, secret, clock)),
          bearer(SignedToken(jwtHeader,
                             PayloadOf(OwnerUser, clock - tokenLifetimeSeconds,
                                       clock), secret)),
          bearer(issueAuthToken(OwnerUser, secret \o <<33>>, clock)),
          bearer(<<owner[1], owner[2]>>) }

NoValue == [value |-> Undefined]

CreateBodies ==
    { [question |-> Str(S_Question), answer |-> Str(S_Answer), tags |-> Undefined],
      [question |-> Str(S_Question), answer |-> Str(S_Answer),
       tags |-> Arr(<<Str(S_unity), Str(<<32>> \o S_unity)>>)],
      [question |-> Str(<<32>>), answer |-> Str(S_Answer), tags |-> Undefined] }

UpdateBodies ==
    { [question |-> Str(S_Answer), answer |-> Undefined, tags |-> Undefined],
      [question |-> Undefined, answer |-> Undefined,
       tags |-> Arr(<<Str(S_unity)>>)],
      [question |-> Undefined, answer |-> Undefined,
       tags |-> Arr(<<Str(S_csharp), Str(S_UNITY), Str(S_net)>>)],
      [question |-> Undefined, answer |-> Undefined, tags |-> Undefined] }

ReactBodies == { [value |-> Num(1)], [value |-> Num(-1)], [value |-> Num(0)] }

\* Card ids of the paths: the seeded card and an id no card has.
CardIds == {1, 0}

\* The repository after init(): one seeded card.
SeededStore ==
    [cards |-> << WithAuthor([id |-> 1, question |-> S_Question,
                              answer |-> S_Answer,
                              tags |-> <<S_unity, S_csharp>>, likesCount |-> 0,
                              dislikesCount |-> 0, score |-> 0,
                              userReaction |-> 0], ownerUsername) >>,
     nextId |-> 2]

\* Card ids of the reaction paths: these and the first card created.
ReactCardIds == CardIds \cup {SeededStore.nextId}

\* The requests of a route: the card id of the path and the body.
CardRequests(route) ==
    CASE route = "createCard" -> { [id |-> 0, body |-> b] : b \in CreateBodies }
      [] route = "updateCard" ->
            { [id |-> id, body |-> b] : id \in CardIds, b \in UpdateBodies }
      [] route = "deleteCard" -> { [id |-> id, body |-> NoValue] : id \in CardIds }
      [] route = "reactCard" ->
            { [id |-> id, body |-> b] : id \in ReactCardIds, b \in ReactBodies }

\* A request to a gated route is answered; http.body keeps the request and
\* the repository as it was.
AnswerCardRoute(route, header, req) ==
    LET outcome == GatedRoute(route, header, req, store, env, now)
    IN  /\ http' = HttpExchange(route, outcome.status,
                                [id |-> req.id, body |-> req.body,
                                 before |-> store],
                                header, NoToken, outcome.user,
                                outcome.status # 401, now)
        /\ store' = outcome.store

\* POST /api/cards
PostCards ==
    /\ Quiet
    /\ store.nextId <= MaxCards
    /\ \E header \in CardRequestHeaders(env, now),
          req \in CardRequests("createCard") :
          AnswerCardRoute("createCard", header, req)
    /\ UNCHANGED <<now, ticks, env, minted, verified, tgCall, logouts>>

\* PUT /api/cards/:id
PutCard ==
    /\ Quiet
    /\ \E header \in CardRequestHeaders(env, now),
          req \in CardRequests("updateCard") :
          AnswerCardRoute("updateCard", header, req)
    /\ UNCHANGED <<now, ticks, env, minted, verified, tgCall, logouts>>

\* DELETE /api/cards/:id
DeleteCard ==
    /\ Quiet
    /\ \E header \in CardRequestHeaders(env, now),
          req \in CardRequests("deleteCard") :
          AnswerCardRoute("deleteCard", header, req)
    /\ UNCHANGED <<now, ticks, env, minted, verified, tgCall, logouts>>

\* POST /api/cards/:id/reaction
PostCardReaction ==
    /\ Quiet
    /\ \E header \in CardRequestHeaders(env, now),
          req \in CardRequests("reactCard") :
          AnswerCardRoute("reactCard", header, req)
    /\ UNCHANGED <<now, ticks, env, minted, verified, tgCall, logouts>>

InitCards ==
    /\ now = Epoch
    /\ ticks = 0
    /\ env \in { DefaultEnv,
                 [TELEGRAM_BOT_TOKEN |-> <<98, 111, 116>>, AUTH_SECRET |-> <<>>] }
    /\ minted = IdleMinted
    /\ verified = IdleVerified
    /\ tgCall = IdleTgCall
    /\ http = IdleHttp
    /\ logouts = 0
    /\ store = SeededStore

NextCards ==
    \/ PostCards
    \/ PutCard
    \/ DeleteCard
    \/ PostCardReaction
    \/ Respond

SpecCards == InitCards /\ [][NextCards]_vars

----------------------------------------------------------------------------
(* Claims about the gated routes (under SpecCards)                         *)

\* The request answered was sent to a gated route.
GatedExchange == http.route \in CardWriteRoutes

\* What the handler behind requireAuth does with the request for the owner.
AuthorizedOutcome ==
    CardHandler(http.route, OwnerUser,
                [id |-> http.body.id, body |-> http.body.body], http.body.before)

\* C11: without TELEGRAM_BOT_TOKEN every write proceeds.  No create, update,
\* delete or react request is answered 401 or 403, and each leaves the
\* repository as the same request of an authorized caller leaves it.
C11_BypassProceeds ==
    (GatedExchange /\ Trim(env.TELEGRAM_BOT_TOKEN) = <<>>)
        => /\ http.status \notin {401, 403}
           /\ http.status = AuthorizedOutcome.status
           /\ store = AuthorizedOutcome.store

\* The request carried no token that verifyAuthToken accepts.
NoAcceptedToken ==
    \/ parseBearerToken(http.header) = NoToken
    \/ verifyAuthToken(parseBearerToken(http.header), resolveAuthSecret(env),
                       http.at) = Null

\* C12: with TELEGRAM_BOT_TOKEN set, a create, update, delete or react
\* request without an Authorization header, with a header that is not a
\* Bearer token, or with a token verifyAuthToken rejects is answered 401 and
\* the repository stays as it was.
C12_GatedWrites ==
    (GatedExchange /\ Trim(env.TELEGRAM_BOT_TOKEN) # <<>> /\ NoAcceptedToken)
        => (http.status = 401 /\ store = http.body.before)

\* C12 witness: a delete of an existing card with a token the owner could
\* have used, signed with another secret, was answered 401.
C12_Witness ==
    /\ http.route = "deleteCard"
    /\ Trim(env.TELEGRAM_BOT_TOKEN) # <<>>
    /\ parseBearerToken(http.header) # NoToken
    /\ Len(parseBearerToken(http.header)) = 3
    /\ ~SignatureMatches(parseBearerToken(http.header), resolveAuthSecret(env))
    /\ FindIndex(http.body.before, http.body.id) # 0
    /\ http.status = 401
    /\ store = http.body.before

----------------------------------------------------------------------------
(* The worker (Hono on D1): the routes that change the database            *)

\* Comments the database takes.
MaxComments == 1

S_Comment == <<79, 75>>

\* The requester hash of the one client address of the model.
RequesterHash == Sha256(<<49, 46, 49, 46, 49, 46, 49, 58>>)

\* createCommentSchema.safeParse(body): text is nonEmpty.max(1200)
createCommentSchema(body) ==
    IF nonEmpty(body.text) # <<>> /\ Len(nonEmpty(body.text)[1]) <= 1200
    THEN [ok |-> TRUE, data |-> [text |-> Str(nonEmpty(body.text)[1])]]
    ELSE [ok |-> FALSE, data |-> body]

\* requireAuth(c) of the worker: TRUE where it returns the 401 response.
requireAuthWorker(header, environment, clock) ==
    LET authEnabled == Trim(environment.TELEGRAM_BOT_TOKEN) # <<>>
        token == parseBearerToken(header)
    IN  IF ~authEnabled THEN FALSE
        ELSE IF token = NoToken THEN TRUE
        ELSE verifyAuthTokenWorker(token, resolveAuthSecret(environment),
                                   clock) = Null

\* The index of the row of cards with this id and deleted_at NULL, else 0.
LiveIndex(db, id) ==
    IF \E i \in 1..Len(db.cards) : db.cards[i].id = id /\ ~db.cards[i].deleted
    THEN CHOOSE i \in 1..Len(db.cards) :
             db.cards[i].id = id /\ ~db.cards[i].deleted
    ELSE 0

\* cardExists(db, id)
cardExists(db, id) == LiveIndex(db, id) # 0

\* setReaction(db, cardId, requesterHash, value, toggleWhenSame)
setReaction(db, cardId, requesterHash, value, toggleWhenSame) ==
    LET mine(row) == row.cardId = cardId /\ row.ipHash = requesterHash
        notMine(row) == ~mine(row)
        existing == SelectSeq(db.reactions, mine)
    IN  IF existing = <<>>
        THEN [db EXCEPT !.reactions =
                 Append(@, [cardId |-> cardId, ipHash |-> requesterHash,
                            value |-> value])]
        ELSE IF existing[1].value = value
        THEN (IF toggleWhenSame
              THEN [db EXCEPT !.reactions = SelectSeq(@, notMine)]
              ELSE db)
        ELSE [db EXCEPT !.reactions =
                 [i \in 1..Len(@) |->
                     IF mine(@[i]) THEN [@[i] EXCEPT !.value = value] ELSE @[i]]]

\* The handlers of the worker after their requireAuth call, where they have
\* one: the status they answer with and the database they leave.
WorkerCreateCard(req, db) ==
    LET parsed == createCardSchema(req.body)
    IN  IF ~req.json \/ ~parsed.ok THEN [status |-> 400, store |-> db]
        ELSE [status |-> 201,
              store |-> [db EXCEPT
                  !.cards = Append(@, [id |-> db.nextId,
                                       question |-> parsed.data.question.s,
                                       answer |-> parsed.data.answer.s,
                                       tags |-> parsed.data.tags.items,
                                       deleted |-> FALSE]),
                  !.nextId = @ + 1]]

WorkerUpdateCard(req, db) ==
    LET parsed == updateCardSchema(req.body)
        index == LiveIndex(db, req.id)
    IN  IF index = 0 THEN [status |-> 404, store |-> db]
        ELSE IF ~req.json \/ ~parsed.ok THEN [status |-> 400, store |-> db]
        ELSE [status |-> 200,
              store |-> [db EXCEPT !.cards[index] =
                  [@ EXCEPT
                      !.question = IF parsed.data.question.t = "undefined"
                                   THEN @ ELSE parsed.data.question.s,
                      !.answer = IF parsed.data.answer.t = "undefined"
                                 THEN @ ELSE parsed.data.answer.s,
                      !.tags = IF parsed.data.tags.t = "undefined"
                               THEN @ ELSE parsed.data.tags.items]]]

WorkerDeleteCard(req, db) ==
    LET index == LiveIndex(db, req.id)
    IN  IF index = 0 THEN [status |-> 404, store |-> db]
        ELSE [status |-> 204,
              store |-> [db EXCEPT !.cards[index].deleted = TRUE]]

WorkerCreateComment(req, db) ==
    LET parsed == createCommentSchema(req.body)
    IN  IF ~cardExists(db, req.id) THEN [status |-> 404, store |-> db]
        ELSE IF ~req.json \/ ~parsed.ok THEN [status |-> 400, store |-> db]
        ELSE [status |-> 201,
              store |-> [db EXCEPT !.comments =
                  Append(@, [cardId |-> req.id, text |-> parsed.data.text.s])]]

WorkerReact(req, db) ==
    LET parsed == reactCardSchema(req.body)
    IN  IF ~cardExists(db, req.id) THEN [status |-> 404, store |-> db]
        ELSE IF ~req.json \/ ~parsed.ok THEN [status |-> 400, store |-> db]
        ELSE [status |-> 200,
              store |-> setReaction(db, req.id, RequesterHash,
                                    parsed.data.value.n, TRUE)]

WorkerLike(req, db) ==
    IF ~cardExists(db, req.id) THEN [status |-> 404, store |-> db]
    ELSE [status |-> 200, store |-> setReaction(db, req.id, RequesterHash, 1, FALSE)]

\* The routes of the worker that write to the database, and those among
\* them that call requireAuth.
WorkerWriteRoutes ==
    {"createCard", "updateCard", "deleteCard", "createComment", "reactCard",
     "likeCard"}

WorkerGatedRoutes == {"createCard", "updateCard", "deleteCard", "reactCard"}

WorkerHandler(route, req, db) ==
    CASE route = "createCard" -> WorkerCreateCard(req, db)
      [] route = "updateCard" -> WorkerUpdateCard(req, db)
      [] route = "deleteCard" -> WorkerDeleteCard(req, db)
      [] route = "createComment" -> WorkerCreateComment(req, db)
      [] route = "reactCard" -> WorkerReact(req, db)
      [] route = "likeCard" -> WorkerLike(req, db)

\* A route of the worker as registered.
WorkerRoute(route, header, req, db, environment, clock) ==
    IF route \in WorkerGatedRoutes /\ requireAuthWorker(header, environment, clock)
    THEN [status |-> 401, store |-> db]
    ELSE WorkerHandler(route, req, db)

\* Card ids of the paths: the seeded card and an id no card has.
WorkerCardIds == {1, 0}

\* The requests of a route of the worker: the id of the path, the body and
\* whether the body is JSON.
WorkerRequests(route) ==
    LET bodies == CASE route = "createCard" -> CreateBodies
                    [] route = "updateCard" -> UpdateBodies
                    [] route = "createComment" ->
                          { [text |-> Str(S_Comment)], [text |-> Str(<<32>>)] }
                    [] route = "reactCard" -> ReactBodies
                    [] OTHER -> {NoValue}
        ids == IF route = "createCard" THEN {0} ELSE WorkerCardIds
    IN  { [id |-> id, body |-> b, json |-> TRUE] : id \in ids, b \in bodies }
        \cup (IF route \in {"deleteCard", "likeCard"} THEN {}
              ELSE { [id |-> id, body |-> NoValue, json |-> FALSE] : id \in ids })

\* The response of a route of the worker; http.body keeps the request and
\* the database as it was.
AnswerWorkerRoute(route, header, req) ==
    LET outcome == WorkerRoute(route, header, req, store, env, now)
    IN  /\ http' = HttpExchange(route, outcome.status,
                                [id |-> req.id, body |-> req.body,
                                 before |-> store],
                                header, NoToken, Null, outcome.status # 401, now)
        /\ store' = outcome.store

\* POST /api/cards
WorkerPostCards ==
    /\ Quiet
    /\ store.nextId <= MaxCards
    /\ \E header \in CardRequestHeaders(env, now),
          req \in WorkerRequests("createCard") :
          AnswerWorkerRoute("createCard", header, req)
    /\ UNCHANGED <<now, ticks, env, minted, verified, tgCall, logouts>>

\* PUT /api/cards/:id
WorkerPutCard ==
    /\ Quiet
    /\ \E header \in CardRequestHeaders(env, now),
          req \in WorkerRequests("updateCard") :
          AnswerWorkerRoute("updateCard", header, req)
    /\ UNCHANGED <<now, ticks, env, minted, verified, tgCall, logouts>>

\* DELETE /api/cards/:id
WorkerDeleteCardRoute ==
    /\ Quiet
    /\ \E header \in CardRequestHeaders(env, now),
          req \in WorkerRequests("deleteCard") :
          AnswerWorkerRoute("deleteCard", header, req)
    /\ UNCHANGED <<now, ticks, env, minted, verified, tgCall, logouts>>

\* POST /api/cards/:id/comments
WorkerPostComment ==
    /\ Quiet
    /\ Len(store.comments) < MaxComments
    /\ \E header \in CardRequestHeaders(env, now),
          req \in WorkerRequests("createComment") :
          AnswerWorkerRoute("createComment", header, req)
    /\ UNCHANGED <<now, ticks, env, minted, verified, tgCall, logouts>>

\* POST /api/cards/:id/reaction
WorkerPostReaction ==
    /\ Quiet
    /\ \E header \in CardRequestHeaders(env, now),
          req \in WorkerRequests("reactCard") :
          AnswerWorkerRoute("reactCard", header, req)
    /\ UNCHANGED <<now, ticks, env, minted, verified, tgCall, logouts>>

\* POST /api/cards/:id/likes
WorkerPostLike ==
    /\ Quiet
    /\ \E header \in CardRequestHeaders(env, now),
          req \in WorkerRequests("likeCard") :
          AnswerWorkerRoute("likeCard", header, req)
    /\ UNCHANGED <<now, ticks, env, minted, verified, tgCall, logouts>>

\* The database after the migrations and the seed: one card.
SeededDatabase ==
    [cards |-> << [id |-> 1, question |-> S_Question, answer |-> S_Answer,
                   tags |-> <<S_unity, S_csharp>>, deleted |-> FALSE] >>,
     comments |-> <<>>,
     reactions |-> <<>>,
     nextId |-> 2]

InitWorker ==
    /\ now = Epoch
    /\ ticks = 0
    /\ env \in { DefaultEnv,
                 [TELEGRAM_BOT_TOKEN |-> <<98, 111, 116>>, AUTH_SECRET |-> <<>>] }
    /\ minted = IdleMinted
    /\ verified = IdleVerified
    /\ tgCall = IdleTgCall
    /\ http = IdleHttp
    /\ logouts = 0
    /\ store = SeededDatabase

NextWorker ==
    \/ WorkerPostCards
    \/ WorkerPutCard
    \/ WorkerDeleteCardRoute
    \/ WorkerPostComment
    \/ WorkerPostReaction
    \/ WorkerPostLike
    \/ Respond

SpecWorker == InitWorker /\ [][NextWorker]_vars

----------------------------------------------------------------------------
(* Claims about the worker (under SpecWorker)                              *)

\* The request carried no token that the worker's verifyAuthToken accepts.
NoAcceptedTokenWorker ==
    \/ parseBearerToken(http.header) = NoToken
    \/ verifyAuthTokenWorker(parseBearerToken(http.header),
                             resolveAuthSecret(env), http.at) = Null

\* C13: with TELEGRAM_BOT_TOKEN set, a request to a route of the worker that
\* writes cards, comments or reactions is refused and leaves the database as
\* it was unless it carries a valid Bearer token.
C13_WorkerWritesGated ==
    (/\ http.route \in WorkerWriteRoutes
     /\ Trim(env.TELEGRAM_BOT_TOKEN) # <<>>
     /\ NoAcceptedTokenWorker)
        => (http.status >= 400 /\ store = http.body.before)

----------------------------------------------------------------------------
(* Claims about the failures of the Express app (under Spec)               *)

\* The login handler called verifyTelegramAuthPayload on an assertion that
\* fails one of its checks.
FailedAssertion ==
    /\ http.route = "login"
    /\ tgCall # IdleTgCall
    /\ \/ ~HashIsCorrect(tgCall.payload, tgCall.botToken)
       \/ ~InWindow(tgCall.payload, tgCall.at)

\* C14: a schema-valid assertion with a wrong hash, one that is too old and
\* one dated too far ahead all get the same failure: null from
\* verifyTelegramAuthPayload, and from the login endpoint status 401 with
\* the one error text, no token and no user.
C14_SilentMismatch ==
    FailedAssertion
        => /\ tgCall.result = Null
           /\ http.status = 401
           /\ http.error = "Invalid Telegram auth payload"
           /\ http.token = NoToken
           /\ http.user = Null

\* C14 witness: an assertion with the correct hash dated 61 seconds ahead
\* got the answer a wrong hash gets.
C14_Witness ==
    /\ FailedAssertion
    /\ HashIsCorrect(tgCall.payload, tgCall.botToken)
    /\ Get(tgCall.payload, "auth_date").n > tgCall.at + futureSkewSeconds
    /\ http.status = 401
    /\ http.error = "Invalid Telegram auth payload"

\* The condition under which a token is to be accepted at clock value
\* `clock`: three segments, the third the base64url HMAC-SHA256 of the first
\* two joined by a dot, a header with alg HS256 and typ JWT, a payload with
\* string sub and firstName and a numeric exp after the clock.
AcceptanceCondition(token, secret, clock) ==
    /\ CorrectlySigned(token, secret)
    /\ base64UrlDecode(token[1]).kind = "object"
    /\ Get(JSONParse(base64UrlDecode(token[1])), "alg") = Str(S_HS256)
    /\ Get(JSONParse(base64UrlDecode(token[1])), "typ") = Str(S_JWT)
    /\ base64UrlDecode(token[2]).kind = "object"
    /\ typeof(Get(DecodedPayload(token), "sub")) = "string"
    /\ typeof(Get(DecodedPayload(token), "firstName")) = "string"
    /\ typeof(Get(DecodedPayload(token), "exp")) = "number"
    /\ Get(DecodedPayload(token), "exp").n > clock

\* The Authorization header of the exchange names the Bearer scheme and
\* carries a token that meets the acceptance condition.
CarriesAcceptableToken ==
    /\ http.header.present
    /\ LowerChars(http.header.scheme) = S_bearer
    /\ http.header.token # NoToken
    /\ AcceptanceCondition(http.header.token, resolveAuthSecret(env), http.at)

\* An exchange of /api/auth/me, or of the middleware of the gated routes
\* with TELEGRAM_BOT_TOKEN set.
TokenExchange ==
    \/ http.route = "me"
    \/ http.route = "requireAuth" /\ Trim(env.TELEGRAM_BOT_TOKEN) # <<>>

\* C15: every token failure (no or malformed Authorization header, not three
\* segments, signature mismatch, alg or typ wrong, sub or firstName not a
\* string, exp missing or passed) gets the same answer from /api/auth/me and
\* from the gated routes: null from verifyAuthToken where it was called,
\* status 401, the error text 'Unauthorized', no user, no call of next().
C15_UniformTokenFailure ==
    (TokenExchange /\ ~CarriesAcceptableToken)
        => /\ verified.result = Null
           /\ http.status = 401
           /\ http.error = "Unauthorized"
           /\ http.user = Null
           /\ ~http.next

\* C15 witness: /api/auth/me answered 401 'Unauthorized' to a correctly
\* signed token whose payload has no exp, after verifyAuthToken returned
\* null for it.
C15_Witness ==
    /\ http.route = "me"
    /\ http.status = 401
    /\ http.error = "Unauthorized"
    /\ verified # IdleVerified
    /\ verified.result = Null
    /\ SignatureMatches(verified.token, verified.secret)
    /\ ~HasKey(DecodedPayload(verified.token), "exp")

\* C16: on a server without TELEGRAM_BOT_TOKEN the login endpoint answers
\* every body, valid, malformed or wrongly signed, with 503 and the error
\* text of the missing configuration: no validation error, no 'invalid'
\* answer, no token, no user, and verifyTelegramAuthPayload is not called.
C16_NotConfiguredFirst ==
    (http.route = "login" /\ Trim(env.TELEGRAM_BOT_TOKEN) = <<>>)
        => /\ http.status = 503
           /\ http.error = "Telegram auth is not configured on server"
           /\ http.token = NoToken
           /\ http.user = Null
           /\ tgCall = IdleTgCall
           /\ minted = IdleMinted

\* C16 witness: a body that passes the schema got 503 although AUTH_SECRET
\* is set.
C16_Witness ==
    /\ http.route = "login"
    /\ http.status = 503
    /\ Trim(env.TELEGRAM_BOT_TOKEN) = <<>>
    /\ Trim(env.AUTH_SECRET) # <<>>
    /\ telegramAuthSchema(http.body).ok

\* The body of a login request fails the assertion schema.
SchemaRejects(body) == ~telegramAuthSchema(body).ok

\* C17: with TELEGRAM_BOT_TOKEN set, a login body that fails the schema gets
\* 400 'Validation error', never 401, whatever its auth_date and hash, and
\* the handler makes no verifyTelegramAuthPayload call (no HMAC is computed).
C17_ValidationFirst ==
    (/\ http.route = "login"
     /\ Trim(env.TELEGRAM_BOT_TOKEN) # <<>>
     /\ SchemaRejects(http.body))
        => /\ http.status = 400
           /\ http.error = "Validation error"
           /\ tgCall = IdleTgCall
           /\ http.token = NoToken
           /\ http.user = Null

\* C17 witness: a body without first_name, with a hash of 64 hex characters
\* and an auth_date within the window, got 400.
C17_Witness ==
    /\ http.route = "login"
    /\ http.status = 400
    /\ Trim(env.TELEGRAM_BOT_TOKEN) # <<>>
    /\ ~HasKey(http.body, "first_name")
    /\ IsHexString(Get(http.body, "hash"))
    /\ Get(http.body, "hash").hex[1].len = HexDigestLength
    /\ InWindow(http.body, http.at)

----------------------------------------------------------------------------
(* Further claims about the token codec (under SpecCodec)                  *)

\* C18: verifyAuthToken of the server returns a user exactly when the token
\* meets the acceptance condition; the user has id = sub, and authDate 0
\* when the payload has no numeric authDate.
C18_AcceptanceCondition ==
    (verified # IdleVerified /\ verified.impl = "server")
        => /\ verified.result # Null
                 <=> AcceptanceCondition(verified.token, verified.secret,
                                         verified.at)
           /\ verified.result # Null
                 => /\ Get(verified.result, "id")
                          = Get(DecodedPayload(verified.token), "sub")
                    /\ Get(verified.result, "authDate")
                          = IF typeof(Get(DecodedPayload(verified.token),
                                          "authDate")) = "number"
                            THEN Get(DecodedPayload(verified.token), "authDate")
                            ELSE Num(0)

\* C18 witness: the server accepted a token whose payload has a string for
\* authDate, and returned a user with authDate 0.
C18_Witness ==
    /\ verified # IdleVerified
    /\ verified.impl = "server"
    /\ verified.result # Null
    /\ typeof(Get(DecodedPayload(verified.token), "authDate")) = "string"
    /\ Get(verified.result, "authDate") = Num(0)
    /\ Get(verified.result, "id") = Get(DecodedPayload(verified.token), "sub")

----------------------------------------------------------------------------
(* The two core operations on bad input                                    *)

\* verifyAuthToken on forged and malformed tokens and
\* verifyTelegramAuthPayload on typed payloads, called side by side.
NextCore ==
    \/ Tick
    \/ VerifyForged
    \/ VerifyMalformed
    \/ ReturnVerified
    \/ VerifyTelegramAuthPayload
    \/ ReturnTgCall

SpecCore == InitCodec /\ [][NextCore]_vars

\* A segment of the token that should hold a JSON object does not.
NotJsonObjects(token) ==
    \/ Len(token) # 3
    \/ base64UrlDecode(token[1]).kind # "object"
    \/ base64UrlDecode(token[2]).kind # "object"

\* C20: neither core operation ends in an exception.  verifyAuthToken, of
\* the server and of the worker, returns null or a user for every token, and
\* null where a segment is empty or does not decode to a JSON object;
\* verifyTelegramAuthPayload returns null or a user for every typed payload.
C20_NeverThrows ==
    /\ verified.result # Thrown
    /\ tgCall.result # Thrown
    /\ (verified # IdleVerified /\ NotJsonObjects(verified.token))
          => verified.result = Null

\* C20 witness: the server was given a correctly signed token whose header
\* segment is not JSON, so that JSON.parse threw, and returned null.
C20_Witness ==
    /\ verified # IdleVerified
    /\ verified.impl = "server"
    /\ CorrectlySigned(verified.token, verified.secret)
    /\ JSONParseThrows(base64UrlDecode(verified.token[1]))
    /\ verified.result = Null

----------------------------------------------------------------------------
(* How much of their operands the signature comparisons look at            *)

\* left !== right on strings: ordinary string comparison, which is through
\* at the first position where the operands differ ("prefix"); equal
\* operands are read to the end ("all").
strictNotEqualWork(left, right) == IF left = right THEN "all" ELSE "prefix"

\* crypto.timingSafeEqual(a, b), and the loop of the worker's
\* timingSafeEqualBytes, which folds every index into diff: all positions,
\* whatever the operands hold.
timingSafeEqualWork(left, right) == "all"

\* safeStringCompare(left, right): nothing is compared where the lengths
\* differ.
safeStringCompareWork(left, right) ==
    IF BufferFromHex(left).length # BufferFromHex(right).length THEN "none"
    ELSE timingSafeEqualWork(BufferFromHex(left), BufferFromHex(right))

\* The comparison of the signature in verifyAuthToken for a token of three
\* segments: of the server (signature !== expectedSignature) and of the
\* worker (timingSafeEqualBytes on the decoded segment).
SignatureWork(impl, token, secret) ==
    LET expectedSignature == signHmac(<<token[1], token[2]>>, secret)
    IN  IF impl = "server"
        THEN strictNotEqualWork(token[3], base64UrlEncode(expectedSignature))
        ELSE IF base64UrlDecodeBytesFails(token[3])
                \/ base64UrlDecode(token[3]).kind # expectedSignature.kind
        THEN "none"
        ELSE timingSafeEqualWork(base64UrlDecode(token[3]), expectedSignature)

\* The hash presented with the payload has another length than the one
\* computed.
HashLengthDiffers(payload, botToken) ==
    BufferFromHex(toLowerCase(Get(payload, "hash"))).length
        # BufferFromHex(ComputedHash(payload, botToken)).length

\* C19: no comparison of a signature stops at the first difference.  The
\* assertion verifier compares the hashes over their whole length, and a
\* presented hash of another length is a failed verification, not an error;
\* the token codec compares the recomputed signature with the third segment
\* over its whole length.
C19_ConstantTimeComparisons ==
    /\ (tgCall # IdleTgCall /\ InWindow(tgCall.payload, tgCall.at))
          => /\ safeStringCompareWork(ComputedHash(tgCall.payload, tgCall.botToken),
                                      toLowerCase(Get(tgCall.payload, "hash")))
                    # "prefix"
             /\ HashLengthDiffers(tgCall.payload, tgCall.botToken)
                    => tgCall.result = Null
    /\ (verified # IdleVerified /\ Len(verified.token) = 3)
          => SignatureWork(verified.impl, verified.token, verified.secret)
                 # "prefix"

----------------------------------------------------------------------------
(* Calls in flight side by side                                            *)

\* The requests the process serves at once.  In this specification http is
\* a function from Requests to the call a request is making: its position,
\* its operation and input, the secret it resolved, the locals it holds and
\* its result.
Requests == {1, 2}

IdleCall ==
    [pc |-> "idle", op |-> "none", token |-> NoToken, payload |-> NoAssertion,
     secret |-> <<>>, expected |-> NullText, at |-> 0, result |-> Null]

\* Tokens presented with requests: one that expires a second after Epoch,
\* the same signed with another secret, and one of two segments.
PresentedTokens(environment) ==
    LET payload == PayloadOf(UserMinimal, Epoch, Epoch + 1)
        good == SignedToken(jwtHeader, payload, resolveAuthSecret(environment))
    IN  { good,
          SignedToken(jwtHeader, payload, resolveAuthSecret(environment) \o <<33>>),
          <<good[1], good[2]>> }

\* Login bodies that pass the schema, as parsed.
PresentedAssertions(environment) ==
    { telegramAuthSchema(body).data :
          body \in { b \in LoginBodies(Epoch, TelegramBotToken(environment)) :
                         telegramAuthSchema(b).ok } }

\* A faulty variant: expectedSignature is kept in one place for all calls.
ScratchOf_shared(request) == 1

\* The call whose locals a request reads: its own (const expectedSignature
\* is a local of verifyAuthToken).
ScratchOf(request) == request

\* What the operation returns when it runs alone with the input and secret
\* of the call at clock value `clock`.
Alone(call, botToken, clock) ==
    CASE call.op = "verifyAuthToken" ->
             verifyAuthToken(call.token, call.secret, clock)
      [] call.op = "verifyAuthTokenWorker" ->
             verifyAuthTokenWorker(call.token, call.secret, clock)
      [] call.op = "login" ->
             IF verifyTelegramAuthPayload(call.payload, botToken, clock) = Null
             THEN Null
             ELSE issueAuthToken(verifyTelegramAuthPayload(call.payload, botToken,
                                                           clock),
                                 call.secret, clock)
      [] call.op = "logout" -> Null

\* A request arrives: the handler reads its input and resolves the secret.
CallBegin ==
    /\ \E request \in Requests :
          /\ http[request].pc = "idle"
          /\ \/ \E op \in {"verifyAuthToken", "verifyAuthTokenWorker"},
                   token \in PresentedTokens(env) :
                   http' = [http EXCEPT ![request] =
                               [IdleCall EXCEPT !.pc = "called", !.op = op,
                                                !.token = token,
                                                !.secret = resolveAuthSecret(env)]]
             \/ \E payload \in PresentedAssertions(env) :
                   http' = [http EXCEPT ![request] =
                               [IdleCall EXCEPT !.pc = "called", !.op = "login",
                                                !.payload = payload,
                                                !.secret = resolveAuthSecret(env)]]
             \/ http' = [http EXCEPT ![request] =
                            [IdleCall EXCEPT !.pc = "called", !.op = "logout"]]
    /\ UNCHANGED <<now, ticks, env, minted, verified, tgCall, logouts, store>>

\* A handler of the server runs to its return statement: verifyAuthToken,
\* the login handler (verifyTelegramAuthPayload, then issueAuthToken) and
\* the logout handler have no await.
RunToCompletion ==
    /\ \E request \in Requests :
          /\ http[request].pc = "called"
          /\ http[request].op \in {"verifyAuthToken", "login", "logout"}
          /\ http' = [http EXCEPT ![request] =
                         [@ EXCEPT !.pc = "done", !.at = now,
                                   !.result = Alone(http[request],
                                                    configuredBotToken(env), now)]]
    /\ UNCHANGED <<now, ticks, env, minted, verified, tgCall, logouts, store>>

\* verifyAuthToken of the worker up to the end of its await: the signature
\* of 'header.payload' is computed into expectedSignature.
WorkerSign ==
    /\ \E request \in Requests :
          /\ http[request].pc = "called"
          /\ http[request].op = "verifyAuthTokenWorker"
          /\ LET call == http[request]
             IN  http' = [http EXCEPT ![request] =
                     IF Len(call.token) # 3
                        \/ base64UrlDecodeBytesFails(call.token[3])
                     THEN [call EXCEPT !.pc = "done", !.at = now, !.result = Null]
                     ELSE [call EXCEPT
                              !.pc = "signed",
                              !.expected = signHmac(<<call.token[1], call.token[2]>>,
                                                    call.secret)]]
    /\ UNCHANGED <<now, ticks, env, minted, verified, tgCall, logouts, store>>

\* verifyAuthToken of the worker after its await: the comparison with
\* expectedSignature, the decoding and the reading of the clock.
WorkerFinish ==
    /\ \E request \in Requests :
          /\ http[request].pc = "signed"
          /\ LET call == http[request]
                 expectedSignature == http[ScratchOf(request)].expected
             IN  http' = [http EXCEPT ![request] =
                     [@ EXCEPT
                        !.pc = "done", !.at = now,
                        !.result =
                            IF ~timingSafeEqualBytes(base64UrlDecode(call.token[3]),
                                                     expectedSignature) THEN Null
                            ELSE IF base64UrlDecodeBytesFails(call.token[1])
                                    \/ base64UrlDecodeBytesFails(call.token[2])
                            THEN Null
                            ELSE DecodeVerified(call.token[1], call.token[2], now)]]
    /\ UNCHANGED <<now, ticks, env, minted, verified, tgCall, logouts, store>>

\* The response of a request is sent.
CallReturn ==
    /\ \E request \in Requests :
          /\ http[request].pc = "done"
          /\ http' = [http EXCEPT ![request] = IdleCall]
    /\ UNCHANGED <<now, ticks, env, minted, verified, tgCall, logouts, store>>

\* The clock moves while calls are in flight.
ClockAdvances ==
    /\ ticks < MaxTicks
    /\ \E step \in ClockSteps : now' = now + step
    /\ ticks' = ticks + 1
    /\ UNCHANGED <<env, minted, verified, tgCall, http, logouts, store>>

InitConcurrent ==
    /\ now = Epoch
    /\ ticks = 0
    /\ env = [TELEGRAM_BOT_TOKEN |-> <<98, 111, 116>>, AUTH_SECRET |-> <<>>]
    /\ minted = IdleMinted
    /\ verified = IdleVerified
    /\ tgCall = IdleTgCall
    /\ http = [request \in Requests |-> IdleCall]
    /\ logouts = 0
    /\ store = EmptyStore

NextConcurrent ==
    \/ CallBegin
    \/ RunToCompletion
    \/ WorkerSign
    \/ WorkerFinish
    \/ CallReturn
    \/ ClockAdvances

SpecConcurrent == InitConcurrent /\ [][NextConcurrent]_vars

\* Every finished call has the result of the call alone.
ResultsAsAlone ==
    \A request \in Requests :
        http[request].pc = "done"
            => http[request].result
                   = Alone(http[request], configuredBotToken(env),
                           http[request].at)

\* A step changes the call of at most one request and leaves the
\* environment alone.
OneCallPerStep ==
    /\ env' = env
    /\ \A request \in Requests :
          http'[request] # http[request]
              => \A other \in Requests \ {request} : http'[other] = http[other]

----------------------------------------------------------------------------
(* Further claims about the Express app (under Spec)                       *)

\* The first of the candidates that is not empty.
RECURSIVE FirstNonEmpty(_)
FirstNonEmpty(candidates) ==
    IF Len(candidates) = 1 \/ Head(candidates) # <<>> THEN Head(candidates)
    ELSE FirstNonEmpty(Tail(candidates))

\* The secret the process is to sign with: AUTH_SECRET, else the bot token,
\* each trimmed, else the development string.
SigningSecret ==
    FirstNonEmpty(<<Trim(env.AUTH_SECRET), Trim(env.TELEGRAM_BOT_TOKEN),
                    S_devSecret>>)

\* C22: the signing secret is AUTH_SECRET when it is not blank, otherwise
\* TELEGRAM_BOT_TOKEN when that is not blank, otherwise the development
\* string; a token is minted with it and every verification of the process
\* uses the same one.
C22_SecretResolution ==
    /\ resolveAuthSecret(env) = SigningSecret
    /\ minted # IdleMinted
          => /\ minted.secret = SigningSecret
             /\ SignatureMatches(minted.token, SigningSecret)
    /\ verified # IdleVerified => verified.secret = SigningSecret

\* C22 witness: with AUTH_SECRET blank and the bot token padded, a token
\* was minted with the trimmed bot token and a verification with the same
\* secret accepted it.
C22_Witness ==
    /\ env.AUTH_SECRET = <<32>>
    /\ env.TELEGRAM_BOT_TOKEN = <<32, 98, 111, 116, 32>>
    /\ minted # IdleMinted
    /\ minted.secret = <<98, 111, 116>>
    /\ verified # IdleVerified
    /\ verified.token = minted.token
    /\ verified.secret = minted.secret
    /\ verified.result # Null

----------------------------------------------------------------------------
(* Further claims about the card routes (under SpecCards)                  *)

\* The user carries the username of the owner, in any letter case and with
\* or without surrounding white space.
HasOwnerName(user) ==
    /\ user # Null
    /\ typeof(Get(user, "username")) = "string"
    /\ LowerChars(Trim(Get(user, "username").s))
          = <<115, 116, 97, 110, 105, 115, 108, 97, 118, 110, 117, 114>>

\* C23: DELETE /api/cards/:id removes a card only for a resolved user whose
\* username is that of the owner; any other authenticated user gets 403 and
\* the card list stays as it was.
C23_OwnerOnlyDelete ==
    http.route = "deleteCard"
        => /\ store # http.body.before => HasOwnerName(http.user)
           /\ (http.user # Null /\ ~HasOwnerName(http.user))
                 => (http.status = 403 /\ store = http.body.before)

\* C23 witness: a user without username asked to delete a card that exists
\* and got 403, the card still there.
C23_Witness ==
    /\ http.route = "deleteCard"
    /\ http.user # Null
    /\ ~HasKey(http.user, "username") \/ typeof(Get(http.user, "username")) = "undefined"
    /\ FindIndex(http.body.before, http.body.id) # 0
    /\ http.status = 403
    /\ FindIndex(store, http.body.id) # 0

\* The tags of the request, as the schema hands them on, leave out a tag of
\* the card, letter case and surrounding white space aside.
OmitsCurrentTag(card, tags) ==
    \E i \in 1..Len(card.tags) :
        \A j \in 1..Len(tags) :
            LowerChars(Trim(tags[j])) # LowerChars(Trim(card.tags[i]))

\* A PUT by a resolved user who is not the owner, with a body the schema
\* accepts, for a card that exists.
NonOwnerUpdate ==
    /\ http.route = "updateCard"
    /\ http.user # Null
    /\ ~HasOwnerName(http.user)
    /\ updateCardSchema(http.body.body).ok
    /\ FindIndex(http.body.before, http.body.id) # 0

\* The card of the request before and after it, and the parsed body.
CardBefore == http.body.before.cards[FindIndex(http.body.before, http.body.id)]

CardAfter == store.cards[FindIndex(store, http.body.id)]

ParsedUpdate == updateCardSchema(http.body.body).data

\* C24: a PUT by a non-owner whose tags leave out a current tag of the card
\* gets 403 and the card stays as it was; one that keeps or extends the
\* tags, or sends none, is applied.
C24_OwnerOnlyTagRemoval ==
    NonOwnerUpdate
        => IF /\ ParsedUpdate.tags.t # "undefined"
              /\ OmitsCurrentTag(CardBefore, ParsedUpdate.tags.items)
           THEN http.status = 403 /\ store = http.body.before
           ELSE /\ http.status = 200
                /\ FindIndex(store, http.body.id) # 0
                /\ ParsedUpdate.tags.t # "undefined"
                      => CardAfter.tags = ParsedUpdate.tags.items
                /\ ParsedUpdate.question.t # "undefined"
                      => CardAfter.question = ParsedUpdate.question.s
                /\ ParsedUpdate.tags.t = "undefined"
                      => CardAfter.tags = CardBefore.tags

\* C24 witness: a non-owner's PUT that spells the card's tags differently
\* and adds one was applied.
C24_Witness ==
    /\ NonOwnerUpdate
    /\ ParsedUpdate.tags.t # "undefined"
    /\ Len(ParsedUpdate.tags.items) > Len(CardBefore.tags)
    /\ ParsedUpdate.tags.items # CardBefore.tags
    /\ http.status = 200
    /\ CardAfter.tags = ParsedUpdate.tags.items

\* repository.getById(id) where the card exists
RepositoryGetById(st, id) == st.cards[FindIndex(st, id)]

\* The summary repository.react(id, value) returns: the fields of the card
\* it has just stored.
ReactionSummaryOf(st, id, value) ==
    LET updated == RepositoryGetById(RepositoryReact(st, id, value), id)
    IN  [cardId |-> updated.id, likesCount |-> updated.likesCount,
         dislikesCount |-> updated.dislikesCount, score |-> updated.score,
         userReaction |-> updated.userReaction]

\* The exchange answered a reaction with 200.
ReactionAnswered == http.route = "reactCard" /\ http.status = 200

ReactionValue == http.body.body.value.n

ReactionBefore == RepositoryGetById(http.body.before, http.body.id)

ReactionSummary == ReactionSummaryOf(http.body.before, http.body.id, ReactionValue)

\* The count of a reaction value on a card or a summary.
CountOf(card, value) == IF value = 1 THEN card.likesCount ELSE card.dislikesCount

\* (likes, dislikes, score, userReaction) of a summary.
Quadruple(summary) ==
    <<summary.likesCount, summary.dislikesCount, summary.score,
      summary.userReaction>>

\* A card just created in the repository, and like, like, dislike on it.
FreshQuestion ==
    [question |-> Str(S_Question), answer |-> Str(S_Answer), tags |-> Arr(<<>>)]

FreshStore == RepositoryCreate(store, FreshQuestion)

FreshId == store.nextId

AfterLike == RepositoryReact(FreshStore, FreshId, 1)

AfterLikeLike == RepositoryReact(AfterLike, FreshId, 1)

\* C25: a reaction equal to the card's current userReaction removes it
\* (userReaction 0, that count one lower); any other reaction sets
\* userReaction to the value, raises the count of the value by one and
\* lowers the count of the previous reaction, if there was one, by one. The
\* summary has score = likesCount - dislikesCount, the card read afterwards
\* shows the values of the summary, and like, like, dislike on a fresh card
\* returns (1,0,1,1), (0,0,0,0), (0,1,-1,-1).
C25_ReactionToggle ==
    /\ ReactionAnswered =>
          /\ ReactionBefore.userReaction = ReactionValue =>
                /\ ReactionSummary.userReaction = 0
                /\ CountOf(ReactionSummary, ReactionValue)
                      = CountOf(ReactionBefore, ReactionValue) - 1
                /\ CountOf(ReactionSummary, -ReactionValue)
                      = CountOf(ReactionBefore, -ReactionValue)
          /\ ReactionBefore.userReaction # ReactionValue =>
                /\ ReactionSummary.userReaction = ReactionValue
                /\ CountOf(ReactionSummary, ReactionValue)
                      = CountOf(ReactionBefore, ReactionValue) + 1
                /\ CountOf(ReactionSummary, -ReactionValue)
                      = CountOf(ReactionBefore, -ReactionValue)
                        - (IF ReactionBefore.userReaction = -ReactionValue
                           THEN 1 ELSE 0)
          /\ ReactionSummary.score
                = ReactionSummary.likesCount - ReactionSummary.dislikesCount
          /\ ReactionSummary.cardId = http.body.id
          /\ Quadruple(RepositoryGetById(store, http.body.id))
                = Quadruple(ReactionSummary)
    /\ Quadruple(ReactionSummaryOf(FreshStore, FreshId, 1)) = <<1, 0, 1, 1>>
    /\ Quadruple(ReactionSummaryOf(AfterLike, FreshId, 1)) = <<0, 0, 0, 0>>
    /\ Quadruple(ReactionSummaryOf(AfterLikeLike, FreshId, -1)) = <<0, 1, -1, -1>>

\* A like is answered by a dislike: the card read afterwards shows one
\* dislike and no like.
C25_Witness ==
    /\ ReactionAnswered
    /\ ReactionBefore.userReaction = 1
    /\ ReactionValue = -1
    /\ Quadruple(RepositoryGetById(store, http.body.id)) = <<0, 1, -1, -1>>

\* card.author as a reader of the response sees it: undefined when the card
\* object has no such property.
AuthorOf(card) ==
    IF "author" \in DOMAIN card THEN Str(card.author) ELSE Undefined

\* The first of the strings that is not blank, trimmed; <<>> if all are.
FirstNonBlank(strings) ==
    LET notBlank(string) == Trim(string) # <<>>
        kept == SelectSeq(strings, notBlank)
    IN  IF kept = <<>> THEN <<>> ELSE Trim(kept[1])

\* The text of a property of the user, empty when it is not there.
TextOf(user, key) ==
    IF typeof(Get(user, key)) = "string" THEN Get(user, key).s ELSE <<>>

\* The author a card created by this user is to carry.
AuthorFor(user) ==
    IF user = Null THEN ownerUsername
    ELSE FirstNonBlank(<<TextOf(user, "username"),
                         TextOf(user, "firstName") \o <<32>>
                             \o TextOf(user, "lastName"),
                         TextOf(user, "id")>>)

\* The exchange created a card.
CardCreated == http.route = "createCard" /\ http.status = 201

\* The cards of the repository that were seeded.
SeededCards ==
    {i \in 1..Len(store.cards) : store.cards[i].id < SeededStore.nextId}

OneReaction(card) ==
    /\ card.likesCount >= 0
    /\ card.dislikesCount >= 0
    /\ card.likesCount + card.dislikesCount <= 1
    /\ (card.likesCount = 1) <=> (card.userReaction = 1)
    /\ (card.dislikesCount = 1) <=> (card.userReaction = -1)

\* C29: the repository keeps one reaction per card, whoever sends it: on
\* every card, seeded or created with zero counts, after any sequence of
\* reactions by any of the authenticated users, likesCount + dislikesCount
\* <= 1, likesCount = 1 exactly when userReaction = 1, dislikesCount = 1
\* exactly when userReaction = -1, and no count is negative.
C29_OneReactionPerCard ==
    \A i \in 1..Len(store.cards) : OneReaction(store.cards[i])

\* A user who is not the owner sends a like to a card that already holds a
\* like: the like is taken back and the card is left without reaction.
C29_Witness ==
    /\ ReactionAnswered
    /\ http.user # Null
    /\ ~isOwnerUser(http.user)
    /\ ReactionBefore.userReaction = 1
    /\ ReactionBefore.likesCount = 1
    /\ ReactionValue = 1
    /\ Quadruple(RepositoryGetById(store, http.body.id)) = <<0, 0, 0, 0>>

----------------------------------------------------------------------------
(* Worker reactions, statement by statement                                *)

\* Requests begun in one behaviour.
MaxReactionCalls == 4

\* A second client address.
OtherRequesterHash == Sha256(<<50, 46, 50, 46, 50, 46, 50, 58>>)

RequesterHashes == {RequesterHash, OtherRequesterHash}

\* The reactions table, empty, and the next row id crypto.randomUUID()
\* hands out.
EmptyReactions == [reactions |-> {}, nextRowId |-> 1]

\* The rows of a card and requester.
RowsOf(db, cardId, requesterHash) ==
    {row \in db.reactions : row.cardId = cardId /\ row.ipHash = requesterHash}

\* A faulty variant: the table has no UNIQUE(card_id, ip_hash).
InsertReaction_noUnique(db, cardId, requesterHash, value) ==
    [ok |-> TRUE,
     db |-> [reactions |-> db.reactions \cup
                 {[id |-> db.nextRowId, cardId |-> cardId,
                   ipHash |-> requesterHash, value |-> value]},
             nextRowId |-> db.nextRowId + 1]]

\* INSERT INTO reactions ...: refused by UNIQUE(card_id, ip_hash) when the
\* card and requester already have a row.
InsertReaction(db, cardId, requesterHash, value) ==
    IF RowsOf(db, cardId, requesterHash) # {}
    THEN [ok |-> FALSE, db |-> db]
    ELSE [ok |-> TRUE,
          db |-> [reactions |-> db.reactions \cup
                      {[id |-> db.nextRowId, cardId |-> cardId,
                        ipHash |-> requesterHash, value |-> value]},
                  nextRowId |-> db.nextRowId + 1]]

\* DELETE FROM reactions WHERE id = ?
DeleteReaction(db, id) ==
    [db EXCEPT !.reactions = {row \in @ : row.id # id}]

\* UPDATE reactions SET value = ? WHERE id = ?
UpdateReaction(db, id, value) ==
    [db EXCEPT !.reactions =
        {IF row.id = id THEN [row EXCEPT !.value = value] ELSE row : row \in @}]

RECURSIVE SqlSum(_, _)
\* SUM(term) over rows, term a function of the row.
SqlSum(rows, term) ==
    IF rows = {} THEN 0
    ELSE LET row == CHOOSE r \in rows : TRUE
         IN  term[row] + SqlSum(rows \ {row}, term)

RECURSIVE SqlMax(_, _)
\* MAX(term) over rows that are not empty.
SqlMax(rows, term) ==
    LET row == CHOOSE r \in rows : TRUE
        rest == rows \ {row}
    IN  IF rest = {} THEN term[row]
        ELSE IF term[row] >= SqlMax(rest, term) THEN term[row]
        ELSE SqlMax(rest, term)

\* getReactionSummary(db, cardId, requesterHash)
readReactionSummary(db, cardId, requesterHash) ==
    LET rows == {row \in db.reactions : row.cardId = cardId}
        isLike == [row \in rows |-> IF row.value = 1 THEN 1 ELSE 0]
        isDislike == [row \in rows |-> IF row.value = -1 THEN 1 ELSE 0]
        valueOf == [row \in rows |-> row.value]
        mine == [row \in rows |->
                    IF row.ipHash = requesterHash THEN row.value ELSE 0]
    IN  [likesCount |-> SqlSum(rows, isLike),
         dislikesCount |-> SqlSum(rows, isDislike),
         score |-> SqlSum(rows, valueOf),
         userReaction |-> IF rows = {} THEN 0 ELSE SqlMax(rows, mine)]

NoRow == <<>>

NoSummary == <<>>

IdleReaction ==
    [pc |-> "idle", route |-> "none", cardId |-> 0, requesterHash |-> NullText,
     value |-> 0, toggleWhenSame |-> FALSE, existing |-> NoRow,
     summary |-> NoSummary, status |-> 0]

\* The calls of setReaction: the reaction route with either value, toggling;
\* the likes route with 1, not toggling.
ReactionCalls ==
    { [route |-> "reaction", value |-> 1, toggleWhenSame |-> TRUE],
      [route |-> "reaction", value |-> -1, toggleWhenSame |-> TRUE],
      [route |-> "likes", value |-> 1, toggleWhenSame |-> FALSE] }

\* A request to one of the two routes has passed the checks before
\* setReaction and is about to run its SELECT.
ReactionBegin ==
    /\ ticks < MaxReactionCalls
    /\ \E request \in Requests, call \in ReactionCalls,
          requesterHash \in RequesterHashes :
          /\ http[request].pc = "idle"
          /\ http' = [http EXCEPT ![request] =
                 [IdleReaction EXCEPT !.pc = "select", !.route = call.route,
                                      !.cardId = 1,
                                      !.requesterHash = requesterHash,
                                      !.value = call.value,
                                      !.toggleWhenSame = call.toggleWhenSame]]
    /\ ticks' = ticks + 1
    /\ UNCHANGED <<now, env, minted, verified, tgCall, logouts, store>>

\* setReaction: SELECT id, value ... WHERE card_id = ? AND ip_hash = ? LIMIT 1
SetReactionSelect ==
    /\ \E request \in Requests :
          LET call == http[request]
              rows == RowsOf(store, call.cardId, call.requesterHash)
          IN  /\ call.pc = "select"
              /\ \/ /\ rows = {}
                    /\ http' = [http EXCEPT ![request] =
                           [call EXCEPT !.pc = "write", !.existing = NoRow]]
                 \/ \E row \in rows :
                       http' = [http EXCEPT ![request] =
                           [call EXCEPT !.pc = "write", !.existing = <<row>>]]
    /\ UNCHANGED <<now, ticks, env, minted, verified, tgCall, logouts, store>>

\* setReaction after the SELECT: the INSERT, the DELETE, the UPDATE or
\* nothing; a refused INSERT throws and app.onError answers 500.
SetReactionWrite ==
    /\ \E request \in Requests :
          LET call == http[request]
              inserted == InsertReaction(store, call.cardId,
                                         call.requesterHash, call.value)
          IN  /\ call.pc = "write"
              /\ IF call.existing = NoRow
                 THEN IF inserted.ok
                      THEN /\ store' = inserted.db
                           /\ http' = [http EXCEPT ![request] =
                                  [call EXCEPT !.pc = "summary"]]
                      ELSE /\ store' = store
                           /\ http' = [http EXCEPT ![request] =
                                  [call EXCEPT !.pc = "failed", !.status = 500]]
                 ELSE /\ http' = [http EXCEPT ![request] =
                             [call EXCEPT !.pc = "summary"]]
                      /\ store' =
                            IF call.existing[1].value = call.value
                            THEN (IF call.toggleWhenSame
                                  THEN DeleteReaction(store, call.existing[1].id)
                                  ELSE store)
                            ELSE UpdateReaction(store, call.existing[1].id,
                                                call.value)
    /\ UNCHANGED <<now, ticks, env, minted, verified, tgCall, logouts>>

\* getReactionSummary and the 200 answer built from it.
ReadSummary ==
    /\ \E request \in Requests :
          LET call == http[request]
          IN  /\ call.pc = "summary"
              /\ http' = [http EXCEPT ![request] =
                     [call EXCEPT !.pc = "respond", !.status = 200,
                                  !.summary = readReactionSummary(
                                      store, call.cardId, call.requesterHash)]]
    /\ UNCHANGED <<now, ticks, env, minted, verified, tgCall, logouts, store>>

\* The answer leaves.
ReactionReturn ==
    /\ \E request \in Requests :
          /\ http[request].pc \in {"respond", "failed"}
          /\ http' = [http EXCEPT ![request] = IdleReaction]
    /\ UNCHANGED <<now, ticks, env, minted, verified, tgCall, logouts, store>>

InitReactions ==
    /\ now = Epoch
    /\ ticks = 0
    /\ env = [TELEGRAM_BOT_TOKEN |-> <<98, 111, 116>>, AUTH_SECRET |-> <<>>]
    /\ minted = IdleMinted
    /\ verified = IdleVerified
    /\ tgCall = IdleTgCall
    /\ http = [request \in Requests |-> IdleReaction]
    /\ logouts = 0
    /\ store = EmptyReactions

NextReactions ==
    \/ ReactionBegin
    \/ SetReactionSelect
    \/ SetReactionWrite
    \/ ReadSummary
    \/ ReactionReturn

SpecReactions == InitReactions /\ [][NextReactions]_vars

\* No card and requester have two rows.
UniqueReactionRows ==
    \A a, b \in store.reactions :
        (a.cardId = b.cardId /\ a.ipHash = b.ipHash) => a = b

\* A request that found no row at its SELECT and reaches its INSERT when
\* the card and requester have a row by now fails and leaves the table as
\* it is.
LateInsertFails ==
    \A request \in Requests :
        ( /\ http[request].pc = "write"
          /\ http[request].existing = NoRow
          /\ RowsOf(store, http[request].cardId,
                    http[request].requesterHash) # {}
          /\ http'[request].pc # "write" )
        => /\ http'[request].pc = "failed"
           /\ http'[request].status = 500
           /\ store' = store

\* The rows of a card with a value.
RowsWith(cardId, value) ==
    {row \in store.reactions : row.cardId = cardId /\ row.value = value}

\* The summary a request has just read gives the numbers of rows with 1
\* and with -1 of its card and their difference.
ReportedFromRows ==
    \A request \in Requests :
        (http[request].pc = "summary" /\ http'[request].pc = "respond")
        => LET cardId == http[request].cardId
               summary == http'[request].summary
           IN  /\ summary.likesCount = Cardinality(RowsWith(cardId, 1))
               /\ summary.dislikesCount = Cardinality(RowsWith(cardId, -1))
               /\ summary.score = Cardinality(RowsWith(cardId, 1))
                                    - Cardinality(RowsWith(cardId, -1))

\* C30: in every reachable database state a card and requester hash have at
\* most one reaction row, also when two requests of one requester for one
\* card interleave between the SELECT and the INSERT of setReaction: the
\* later INSERT fails and adds nothing; and the likesCount, dislikesCount
\* and score a request reports are the counts and the sum of the rows
\* stored when it reads them.
C30_OneRowPerRequester ==
    /\ []UniqueReactionRows
    /\ [][LateInsertFails /\ ReportedFromRows]_vars

\* Two requests of one requester both found no row; one has inserted and
\* the other's INSERT was refused: one row is stored.
C30_Witness ==
    /\ http[1].pc = "failed"
    /\ http[1].existing = NoRow
    /\ http[2].pc # "idle"
    /\ http[2].existing = NoRow
    /\ http[2].requesterHash = http[1].requesterHash
    /\ Cardinality(RowsOf(store, http[1].cardId, http[1].requesterHash)) = 1

----------------------------------------------------------------------------
(* FileCardRepository: the write queue                                     *)

\* Repository calls begun in one behaviour.
MaxRepositoryCalls == 3

\* `${JSON.stringify(this.cards, null, 2)}\n`: the cards in order, each with
\* its properties in the order the object lists them.
SerializeCards(cards) ==
    [i \in 1..Len(cards) |->
        << <<"id", cards[i].id>>, <<"question", cards[i].question>>,
           <<"answer", cards[i].answer>>, <<"tags", cards[i].tags>>,
           <<"likesCount", cards[i].likesCount>>,
           <<"dislikesCount", cards[i].dislikesCount>>,
           <<"score", cards[i].score>>,
           <<"userReaction", cards[i].userReaction>> >>]

\* What a failed fs.writeFile may leave of the file.
Truncated == << <<"truncated">> >>

NoContent == <<>>

\* A promise of the chain is settled.
Settled(write) == write.state \in {"fulfilled", "rejected"}

\* A faulty variant: the write does not wait for the one before it.
MayStart_unchained(writes, k) == writes[k].state = "pending"

\* this.writeQueue.catch(() => undefined).then(() => fs.writeFile(...)): the
\* callback of write k runs once the promise before it has settled.
MayStart(writes, k) ==
    /\ writes[k].state = "pending"
    /\ IF k = 1 THEN TRUE ELSE Settled(writes[k - 1])

\* persist(): the chain grows by one promise, which the caller awaits.
Persist(writes, caller) ==
    Append(writes, [state |-> "pending", content |-> NoContent,
                    caller |-> caller])

\* The repository calls of the model: what they do to this.cards and
\* whether they reach persist().
RepositoryCalls == {"create", "update", "remove", "like", "dislike"}

CallFinds(op, repo) == op = "create" \/ FindIndex(repo, 1) # 0

CallApplied(op, repo) ==
    CASE op = "create" -> RepositoryCreate(repo, FreshQuestion)
      [] op = "update" ->
            RepositoryUpdate(repo, 1, [question |-> Str(S_Answer),
                                       answer |-> Undefined,
                                       tags |-> Undefined])
      [] op = "remove" -> RepositoryRemove(repo, 1)
      [] op = "like" -> RepositoryReact(repo, 1, 1)
      [] op = "dislike" -> RepositoryReact(repo, 1, -1)

IdleRepositoryCall == [pc |-> "idle", op |-> "none", write |-> 0]

\* The repository after init(): the seeded cards as create() shapes them,
\* written to the file.
InitialRepository ==
    LET seeded == RepositoryCreate([cards |-> <<>>, nextId |-> 1], FreshQuestion)
    IN  [repo |-> seeded, file |-> SerializeCards(seeded.cards), writes |-> <<>>]

\* create, update, remove or react up to its await: this.cards is changed
\* and persist() has chained its write; a call that finds no card returns
\* without either.
RepositoryCall ==
    /\ ticks < MaxRepositoryCalls
    /\ \E request \in Requests, op \in RepositoryCalls :
          /\ http[request].pc = "idle"
          /\ IF CallFinds(op, store.repo)
             THEN /\ store' = [store EXCEPT
                                  !.repo = CallApplied(op, store.repo),
                                  !.writes = Persist(@, request)]
                  /\ http' = [http EXCEPT ![request] =
                         [pc |-> "awaiting", op |-> op,
                          write |-> Len(store.writes) + 1]]
             ELSE /\ store' = store
                  /\ http' = [http EXCEPT ![request] =
                         [pc |-> "returned", op |-> op, write |-> 0]]
    /\ ticks' = ticks + 1
    /\ UNCHANGED <<now, env, minted, verified, tgCall, logouts>>

\* The callback of a write runs: this.cards is serialized as it is now and
\* fs.writeFile begins.
WriteStarts ==
    /\ \E k \in 1..Len(store.writes) :
          /\ MayStart(store.writes, k)
          /\ store' = [store EXCEPT
                          !.writes[k].state = "running",
                          !.writes[k].content = SerializeCards(store.repo.cards)]
    /\ UNCHANGED <<now, ticks, env, minted, verified, tgCall, http, logouts>>

\* fs.writeFile ends well: the file holds what the write serialized, and
\* the caller's await returns.
WriteSucceeds ==
    /\ \E k \in 1..Len(store.writes) :
          /\ store.writes[k].state = "running"
          /\ store' = [store EXCEPT !.writes[k].state = "fulfilled",
                                    !.file = store.writes[k].content]
          /\ http' = [http EXCEPT ![store.writes[k].caller].pc = "returned"]
    /\ UNCHANGED <<now, ticks, env, minted, verified, tgCall, logouts>>

\* fs.writeFile fails: the file is as it was or cut short, and the caller's
\* await throws.
WriteFails ==
    /\ \E k \in 1..Len(store.writes), left \in {store.file, Truncated} :
          /\ store.writes[k].state = "running"
          /\ store' = [store EXCEPT !.writes[k].state = "rejected",
                                    !.file = left]
          /\ http' = [http EXCEPT ![store.writes[k].caller].pc = "threw"]
    /\ UNCHANGED <<now, ticks, env, minted, verified, tgCall, logouts>>

\* The call's promise settles and its caller goes on.
RepositoryReturn ==
    /\ \E request \in Requests :
          /\ http[request].pc \in {"returned", "threw"}
          /\ http' = [http EXCEPT ![request] = IdleRepositoryCall]
    /\ UNCHANGED <<now, ticks, env, minted, verified, tgCall, logouts, store>>

InitRepository ==
    /\ now = Epoch
    /\ ticks = 0
    /\ env = DefaultEnv
    /\ minted = IdleMinted
    /\ verified = IdleVerified
    /\ tgCall = IdleTgCall
    /\ http = [request \in Requests |-> IdleRepositoryCall]
    /\ logouts = 0
    /\ store = InitialRepository

NextRepository ==
    \/ RepositoryCall
    \/ WriteStarts
    \/ WriteSucceeds
    \/ WriteFails
    \/ RepositoryReturn

SpecRepository == InitRepository /\ [][NextRepository]_vars

\* The writes of the cards file in progress.
WritesInProgress ==
    {k \in 1..Len(store.writes) : store.writes[k].state = "running"}

\* A write has started only if every write chained before it has.
StartedInOrder ==
    \A k \in 1..Len(store.writes) :
        store.writes[k].state # "pending"
        => \A j \in 1..(k - 1) : store.writes[j].state # "pending"

\* Every call has completed and no write has failed.
AllCompleted ==
    /\ \A request \in Requests : http[request].pc \in {"idle", "returned"}
    /\ \A k \in 1..Len(store.writes) : store.writes[k].state = "fulfilled"

\* C28: whatever the interleaving of create, update, remove and react
\* calls, at most one write of the cards file is in progress, the writes
\* start in the order persist() was called, and once every call has
\* completed without a write failure the file holds the serialization of
\* the in-memory card list.
C28_WritesSerializedAndConverge ==
    /\ Cardinality(WritesInProgress) <= 1
    /\ StartedInOrder
    /\ AllCompleted => store.file = SerializeCards(store.repo.cards)

\* Two calls overlapped: the second changed the cards while the first
\* call's write had not started; both writes are done and the file holds
\* the final list.
C28_Witness ==
    /\ AllCompleted
    /\ Len(store.writes) >= 2
    /\ store.writes[1].caller # store.writes[2].caller
    /\ store.writes[1].content = store.writes[2].content
    /\ store.file # InitialRepository.file

----------------------------------------------------------------------------
(* The client's session                                                    *)

\* Telegram callbacks begun in one behaviour.
MaxCallbacks == 3

\* The requests of the client that touch the session: the startup check,
\* two Telegram callbacks and the logout.
ClientTasks == {"me", "login1", "login2", "logout"}

LoginTasks == {"login1", "login2"}

\* localStorage without the item, and with it.
NoItem == <<>>

Item(text) == <<text>>

S_t0 == <<116, 48>>

\* The token each login answers with.
SessionToken(task) ==
    IF task = "login1" THEN <<116, 49>> ELSE <<116, 50>>

\* getStoredAuthToken(): the item if it is there and not blank, else null.
getStoredAuthToken(item) ==
    IF item # NoItem /\ Len(Trim(item[1])) > 0 THEN item ELSE NoItem

\* setStoredAuthToken(token)
setStoredAuthToken(item, token) == Item(token)

\* clearStoredAuthToken()
clearStoredAuthToken(item) == NoItem

\* The catch clause of the Telegram callback.
LoginCatch(item) == clearStoredAuthToken(item)

\* The client as App mounts with Telegram login enabled: authUser null,
\* authLoading true, and whatever an earlier visit left in localStorage.
ClientStates ==
    { [item |-> item, authUser |-> Null, authLoading |-> TRUE,
       error |-> FALSE] : item \in {NoItem, Item(S_t0), Item(<<32>>)} }

IdleTask == [pc |-> "idle", sent |-> NoItem]

\* The widget effect has registered the callback: not loading and no user.
CallbackRegistered == ~store.authLoading /\ store.authUser = Null

\* App's session effect: without a stored token loading ends, with one
\* authApi.me() is sent with it.
SessionCheckStarts ==
    /\ http["me"].pc = "idle"
    /\ IF getStoredAuthToken(store.item) = NoItem
       THEN /\ store' = [store EXCEPT !.authLoading = FALSE]
            /\ http' = [http EXCEPT !["me"].pc = "done"]
       ELSE /\ store' = store
            /\ http' = [http EXCEPT !["me"] =
                   [pc |-> "inflight",
                    sent |-> getStoredAuthToken(store.item)]]
    /\ UNCHANGED <<now, ticks, env, minted, verified, tgCall, logouts>>

\* authApi.me() is answered with the user.
SessionCheckSucceeds ==
    /\ http["me"].pc = "inflight"
    /\ \E user \in {UserMinimal, UserFull} :
          store' = [store EXCEPT !.authUser = user, !.authLoading = FALSE]
    /\ http' = [http EXCEPT !["me"].pc = "done"]
    /\ UNCHANGED <<now, ticks, env, minted, verified, tgCall, logouts>>

\* authApi.me() fails: the stored token is cleared.
SessionCheckFails ==
    /\ http["me"].pc = "inflight"
    /\ store' = [store EXCEPT !.item = clearStoredAuthToken(@),
                              !.authUser = Null, !.authLoading = FALSE]
    /\ http' = [http EXCEPT !["me"].pc = "done"]
    /\ UNCHANGED <<now, ticks, env, minted, verified, tgCall, logouts>>

\* The widget calls the registered callback: a payload that is not a
\* Telegram payload only sets the error, another is sent to the login
\* endpoint.
TelegramCallback ==
    /\ ticks < MaxCallbacks
    /\ CallbackRegistered
    /\ \E task \in LoginTasks, isTelegramPayload \in BOOLEAN :
          /\ http[task].pc = "idle"
          /\ IF isTelegramPayload
             THEN /\ http' = [http EXCEPT ![task].pc = "inflight"]
                  /\ store' = [store EXCEPT !.error = FALSE]
             ELSE /\ http' = http
                  /\ store' = [store EXCEPT !.error = TRUE]
    /\ ticks' = ticks + 1
    /\ UNCHANGED <<now, env, minted, verified, tgCall, logouts>>

\* authApi.loginWithTelegram answers with a session: the token is stored
\* and the user set.
LoginSucceeds ==
    /\ \E task \in LoginTasks, user \in {UserMinimal, UserFull} :
          /\ http[task].pc = "inflight"
          /\ store' = [store EXCEPT
                          !.item = setStoredAuthToken(@, SessionToken(task)),
                          !.authUser = user]
          /\ http' = [http EXCEPT ![task] = IdleTask]
    /\ UNCHANGED <<now, ticks, env, minted, verified, tgCall, logouts>>

\* authApi.loginWithTelegram throws: the catch clause runs.
LoginFails ==
    /\ \E task \in LoginTasks :
          /\ http[task].pc = "inflight"
          /\ store' = [store EXCEPT !.item = LoginCatch(@), !.error = TRUE]
          /\ http' = [http EXCEPT ![task] = IdleTask]
    /\ UNCHANGED <<now, ticks, env, minted, verified, tgCall, logouts>>

\* handleLogout up to its await: authApi.logout() is sent.
LogoutStarts ==
    /\ store.authUser # Null
    /\ http["logout"].pc = "idle"
    /\ http' = [http EXCEPT !["logout"] =
           [pc |-> "inflight", sent |-> getStoredAuthToken(store.item)]]
    /\ UNCHANGED <<now, ticks, env, minted, verified, tgCall, logouts, store>>

\* handleLogout after its await, whether authApi.logout() threw or not.
LogoutFinishes ==
    /\ http["logout"].pc = "inflight"
    /\ store' = [store EXCEPT !.item = clearStoredAuthToken(@),
                              !.authUser = Null, !.error = FALSE]
    /\ http' = [http EXCEPT !["logout"] = IdleTask]
    /\ UNCHANGED <<now, ticks, env, minted, verified, tgCall, logouts>>

InitClient ==
    /\ now = Epoch
    /\ ticks = 0
    /\ env = DefaultEnv
    /\ minted = IdleMinted
    /\ verified = IdleVerified
    /\ tgCall = IdleTgCall
    /\ http = [task \in ClientTasks |-> IdleTask]
    /\ logouts = 0
    /\ store \in ClientStates

NextClient ==
    \/ SessionCheckStarts
    \/ SessionCheckSucceeds
    \/ SessionCheckFails
    \/ TelegramCallback
    \/ LoginSucceeds
    \/ LoginFails
    \/ LogoutStarts
    \/ LogoutFinishes

SpecClient == InitClient /\ [][NextClient]_vars

\* C27: in every state of the client, whatever the interleaving of the
\* startup session check, the Telegram callbacks, two of them overlapping
\* included, and the logout, a user in authUser comes with an auth token
\* in local storage.
C27_UserImpliesToken ==
    store.authUser # Null => getStoredAuthToken(store.item) # NoItem

=============================================================================
